---------------------------- MODULE Spec2Model ----------------------------
(***************************************************************************)
(* A model of the Drizzle schema extractor: DrizzleASTParser               *)
(* (src/src/lib/drizzle-ast-parser.ts) driven by the per-file loop of the  *)
(* entities:extract command (src/src/commands/entities-extract.ts).        *)
(*                                                                         *)
(* Source text is modelled as sequences of one-character strings, so that  *)
(* toLowerCase, includes, endsWith, replace and the regular expressions of *)
(* the parser are computed and not assumed.  Syntax-tree nodes are records *)
(* with a "kind" field holding the ts-morph node kind the code tests.      *)
(* An optional value is a sequence of length 0 (undefined / null) or 1.    *)
(***************************************************************************)
EXTENDS Naturals, Sequences, FiniteSets, TLC

(***************************************************************************)
(* Bounds of the model.                                                    *)
(***************************************************************************)
\* longest chain of modifier calls wrapped around a column's type call
MaxChain == 2
\* most column-map entries of a generated table shape
MaxCols == 2
\* most entries of a generated relation mapping
MaxRels == 2

(***************************************************************************)
(* Optional values.                                                        *)
(***************************************************************************)
None == <<>>
Some(x) == <<x>>
IsSome(o) == Len(o) > 0
IsNone(o) == Len(o) = 0
Get(o) == o[1]

(***************************************************************************)
(* Strings.                                                                *)
(***************************************************************************)
UpperChars == <<"A","B","C","D","E","F","G","H","I","J","K","L","M",
                "N","O","P","Q","R","S","T","U","V","W","X","Y","Z">>
LowerChars == <<"a","b","c","d","e","f","g","h","i","j","k","l","m",
                "n","o","p","q","r","s","t","u","v","w","x","y","z">>
DigitChars == {"0","1","2","3","4","5","6","7","8","9"}

Range(s) == { s[i] : i \in 1..Len(s) }

\* \w of a JavaScript regular expression
IsWordChar(c) == c \in Range(UpperChars) \cup Range(LowerChars) \cup DigitChars \cup {"_"}
\* \s of a JavaScript regular expression (the white space the inputs use)
IsSpaceChar(c) == c \in {" ", "\t", "\n"}

LowerOf(c) ==
  IF c \in Range(UpperChars)
    THEN LowerChars[CHOOSE i \in 1..Len(UpperChars) : UpperChars[i] = c]
    ELSE c

\* String.prototype.toLowerCase
toLowerCase(s) == [ i \in 1..Len(s) |-> LowerOf(s[i]) ]

\* s.startsWith(sub) at position i
MatchesAt(s, sub, i) ==
  /\ i >= 1
  /\ i + Len(sub) - 1 <= Len(s)
  /\ \A k \in 1..Len(sub) : s[i + k - 1] = sub[k]

\* String.prototype.includes
includes(s, sub) == \E i \in 1..(Len(s) + 1) : MatchesAt(s, sub, i)

\* String.prototype.endsWith
endsWith(s, sub) == Len(sub) <= Len(s) /\ MatchesAt(s, sub, Len(s) - Len(sub) + 1)

\* String.prototype.replace(sub, rep) with a string pattern: the first
\* occurrence only
replace(s, sub, rep) ==
  IF includes(s, sub)
    THEN LET i == CHOOSE j \in 1..(Len(s) + 1) :
                    /\ MatchesAt(s, sub, j)
                    /\ \A k \in 1..(j - 1) : ~MatchesAt(s, sub, k)
         IN  SubSeq(s, 1, i - 1) \o rep \o SubSeq(s, i + Len(sub), Len(s))
    ELSE s

(***************************************************************************)
(* Identifiers and literals of the source documents.                       *)
(***************************************************************************)
s_id          == <<"i","d">>
s_users       == <<"u","s","e","r","s">>
s_posts       == <<"p","o","s","t","s">>
s_tags        == <<"t","a","g","s">>
s_postsToTags == <<"p","o","s","t","s","T","o","T","a","g","s">>
s_posts_tags  == <<"p","o","s","t","s","_","t","a","g","s">>
s_authorId    == <<"a","u","t","h","o","r","I","d">>
s_postId      == <<"p","o","s","t","I","d">>
s_tagId       == <<"t","a","g","I","d">>
s_email       == <<"e","m","a","i","l">>
s_title       == <<"t","i","t","l","e">>
s_body        == <<"b","o","d","y">>
s_slug        == <<"s","l","u","g">>
s_rank        == <<"r","a","n","k">>
s_pgTable     == <<"p","g","T","a","b","l","e">>
s_a           == <<"a">>
s_b           == <<"b">>
s_t           == <<"t">>
s_dot         == <<".">>
s_arrow       == <<"(",")"," ","=",">"," ">>

s_notNull     == <<"n","o","t","N","u","l","l">>
s_primaryKey  == <<"p","r","i","m","a","r","y","K","e","y">>
s_unique      == <<"u","n","i","q","u","e">>
s_default     == <<"d","e","f","a","u","l","t">>
s_defaultNow  == <<"d","e","f","a","u","l","t","N","o","w">>
s_references  == <<"r","e","f","e","r","e","n","c","e","s">>
s_integer     == <<"i","n","t","e","g","e","r">>
s_varchar     == <<"v","a","r","c","h","a","r">>
s_unknown     == <<"u","n","k","n","o","w","n">>
s_length      == <<"l","e","n","g","t","h">>
s_precision   == <<"p","r","e","c","i","s","i","o","n">>
s_scale       == <<"s","c","a","l","e">>
s_enum        == <<"e","n","u","m">>
s_true        == <<"t","r","u","e">>
s_NOW         == <<"N","O","W","(",")">>

(***************************************************************************)
(* Syntax-tree nodes (ts-morph).  Every node carries its kind; the fields  *)
(* are the ones the parser reads through the ts-morph accessors.           *)
(***************************************************************************)
Identifier(text) == [kind |-> "Identifier", text |-> text]
PropertyAccess(object, name) ==
  [kind |-> "PropertyAccessExpression", expression |-> object, name |-> name]
Call(callee, args) ==
  [kind |-> "CallExpression", expression |-> callee, arguments |-> args]
StringLiteral(value) == [kind |-> "StringLiteral", value |-> value]
TemplateLiteral(value) == [kind |-> "NoSubstitutionTemplateLiteral", value |-> value]
NumericLiteral(value) == [kind |-> "NumericLiteral", value |-> value]
TrueLiteral == [kind |-> "TrueKeyword", text |-> s_true]
ArrayLiteral(elements) == [kind |-> "ArrayLiteralExpression", elements |-> elements]
ObjectLiteral(properties) ==
  [kind |-> "ObjectLiteralExpression", properties |-> properties]
ArrowFunction(body) == [kind |-> "ArrowFunction", body |-> body]
\* name: expr, with the comment ranges that lead the property
PropertyAssignment(name, initializer, leading) ==
  [kind |-> "PropertyAssignment", name |-> name, initializer |-> initializer,
   leadingComments |-> leading]
\* { name } : a property of an object literal that is no PropertyAssignment
ShorthandProperty(name) ==
  [kind |-> "ShorthandPropertyAssignment", name |-> name, leadingComments |-> <<>>]

\* Number.prototype.toString of a natural number
RECURSIVE NatToStr(_)
NatToStr(n) ==
  LET digit == <<"0","1","2","3","4","5","6","7","8","9">>[(n % 10) + 1]
  IN  IF n < 10 THEN <<digit>> ELSE NatToStr(n \div 10) \o <<digit>>

\* Node.getText of the expressions the documents contain
RECURSIVE getText(_)
getText(node) ==
  CASE node.kind = "Identifier" -> node.text
    [] node.kind = "TrueKeyword" -> node.text
    [] node.kind = "PropertyAccessExpression" ->
         getText(node.expression) \o s_dot \o node.name
    [] node.kind = "StringLiteral" -> <<"'">> \o node.value \o <<"'">>
    [] node.kind = "NumericLiteral" -> NatToStr(node.value)
    [] node.kind = "ArrowFunction" -> s_arrow \o getText(node.body)
    [] node.kind = "CallExpression" -> getText(node.expression) \o <<"(",")">>
    [] OTHER -> <<"{","}">>

FoldLeft(Op(_, _), acc, seq) ==
  LET RECURSIVE go(_, _)
      go(a, i) == IF i > Len(seq) THEN a ELSE go(Op(a, seq[i]), i + 1)
  IN  go(acc, 1)

Map(seq, F(_)) == [ i \in 1..Len(seq) |-> F(seq[i]) ]


(***************************************************************************)
(* Comment Extractor.                                                      *)
(***************************************************************************)
\* text.replace(/p1|p2/g, ""): every occurrence, scanning left to right,
\* the alternatives tried in order
RemoveAll(s, pats) ==
  LET Found(i) == \E p \in 1..Len(pats) : MatchesAt(s, pats[p], i)
      RECURSIVE go(_)
      \* the text from position i on: it is copied up to the next match,
      \* and the scan goes on after the match
      go(i) ==
        IF \A k \in i..Len(s) : ~Found(k) THEN SubSeq(s, i, Len(s))
        ELSE LET j == CHOOSE k \in i..Len(s) :
                          Found(k) /\ \A r \in i..(k - 1) : ~Found(r)
                 p == CHOOSE q \in 1..Len(pats) :
                          /\ MatchesAt(s, pats[q], j)
                          /\ \A r \in 1..(q - 1) : ~MatchesAt(s, pats[r], j)
             IN  SubSeq(s, i, j - 1) \o go(j + Len(pats[p]))
  IN  go(1)

\* text.split("\n")
split(s) ==
  LET RECURSIVE go(_)
      \* the lines of the text from position i on
      go(i) ==
        IF \A k \in i..Len(s) : s[k] # "\n" THEN <<SubSeq(s, i, Len(s))>>
        ELSE LET j == CHOOSE k \in i..Len(s) :
                          s[k] = "\n" /\ \A r \in i..(k - 1) : s[r] # "\n"
             IN  <<SubSeq(s, i, j - 1)>> \o go(j + 1)
  IN  go(1)

\* the number of white-space characters that lead the line
LeadingSpaces(line) ==
  IF \A i \in 1..Len(line) : IsSpaceChar(line[i]) THEN Len(line)
  ELSE (CHOOSE i \in 1..Len(line) :
          /\ ~IsSpaceChar(line[i])
          /\ \A k \in 1..(i - 1) : IsSpaceChar(line[k])) - 1

Drop(s, n) == SubSeq(s, n + 1, Len(s))

\* line.replace(/^\s*\*\s?/, "")
StripJSDocMarker(line) ==
  LET k == LeadingSpaces(line)
  IN  IF k < Len(line) /\ line[k + 1] = "*"
        THEN IF k + 1 < Len(line) /\ IsSpaceChar(line[k + 2])
               THEN Drop(line, k + 2) ELSE Drop(line, k + 1)
        ELSE line

\* line.replace(/^\s*\*?\s?/, "")
StripBlockMarker(line) ==
  LET k == LeadingSpaces(line)
  IN  IF k < Len(line) /\ line[k + 1] = "*"
        THEN IF k + 1 < Len(line) /\ IsSpaceChar(line[k + 2])
               THEN Drop(line, k + 2) ELSE Drop(line, k + 1)
        ELSE Drop(line, k)

\* String.prototype.trim
trim(s) ==
  IF \A i \in 1..Len(s) : IsSpaceChar(s[i]) THEN <<>>
  ELSE SubSeq(s,
              CHOOSE b \in 1..Len(s) :
                ~IsSpaceChar(s[b]) /\ \A k \in 1..(b - 1) : IsSpaceChar(s[k]),
              CHOOSE e \in 1..Len(s) :
                ~IsSpaceChar(s[e]) /\ \A k \in (e + 1)..Len(s) : IsSpaceChar(s[k]))

\* the text without the white space that ends it
trimEnd(s) ==
  IF \A i \in 1..Len(s) : IsSpaceChar(s[i]) THEN <<>>
  ELSE SubSeq(s, 1,
              CHOOSE e \in 1..Len(s) :
                ~IsSpaceChar(s[e]) /\ \A k \in (e + 1)..Len(s) : IsSpaceChar(s[k]))

\* Array.prototype.join
join(strs, sep) ==
  LET RECURSIVE go(_)
      go(i) == IF i > Len(strs) THEN <<>>
               ELSE IF i = Len(strs) THEN strs[i]
               ELSE strs[i] \o sep \o go(i + 1)
  IN  go(1)

\* the while loops that shift and pop the empty lines
RECURSIVE DropEmptyEnds(_)
DropEmptyEnds(lines) ==
  IF Len(lines) > 0 /\ lines[1] = <<>> THEN DropEmptyEnds(Tail(lines))
  ELSE IF Len(lines) > 0 /\ lines[Len(lines)] = <<>>
    THEN DropEmptyEnds(SubSeq(lines, 1, Len(lines) - 1))
  ELSE lines

\* the paragraph loop with a paragraph closed at every empty line
GroupLine_BreakAtEveryBlank(acc, line) ==
  IF line = <<>>
    THEN [paragraphs |-> Append(acc.paragraphs, join(acc.currentParagraph, <<" ">>)),
          currentParagraph |-> <<>>]
    ELSE [acc EXCEPT !.currentParagraph = Append(@, line)]

\* one pass of the paragraph loop
GroupLine(acc, line) ==
  IF line = <<>>
    THEN IF Len(acc.currentParagraph) > 0
           THEN [paragraphs |-> Append(acc.paragraphs, join(acc.currentParagraph, <<" ">>)),
                 currentParagraph |-> <<>>]
           ELSE acc
    ELSE [acc EXCEPT !.currentParagraph = Append(@, line)]

\* the lines of a comment range without its delimiters and line markers
CommentLines(text) ==
  IF MatchesAt(text, <<"/","*","*">>, 1)
    THEN Map(split(RemoveAll(text, << <<"/","*","*">>, <<"*","/">> >>)),
             StripJSDocMarker)
  ELSE IF MatchesAt(text, <<"/","*">>, 1)
    THEN Map(split(RemoveAll(text, << <<"/","*">>, <<"*","/">> >>)),
             StripBlockMarker)
  ELSE << RemoveAll(text, << <<"/","/">> >>) >>

\* the paragraph that is open when the loop ends is added
FinishParagraphs(acc) ==
  IF Len(acc.currentParagraph) > 0
    THEN Append(acc.paragraphs, join(acc.currentParagraph, <<" ">>))
    ELSE acc.paragraphs

GroupParagraphs(processedLines) ==
  IF Len(processedLines) = 0 THEN <<>>
  ELSE join(FinishParagraphs(FoldLeft(GroupLine,
                                      [paragraphs |-> <<>>, currentParagraph |-> <<>>],
                                      processedLines)),
            <<"\n">>)

\* the callback mapped over the comment ranges
NormalizeComment(text) == GroupParagraphs(DropEmptyEnds(Map(CommentLines(text), trim)))

NonEmptyString(s) == Len(s) > 0

extractComments(leadingComments) ==
  IF Len(leadingComments) > 0
    THEN Some(join(SelectSeq(Map(leadingComments, NormalizeComment), NonEmptyString),
                   <<"\n">>))
    ELSE None

(***************************************************************************)
(* Column Extractor and Method-Chain Resolver.                             *)
(***************************************************************************)
extractStringValue(node) ==
  IF node.kind \in {"StringLiteral", "NoSubstitutionTemplateLiteral"}
    THEN Some(node.value) ELSE None

extractNumericValue(node) ==
  IF node.kind = "NumericLiteral" THEN Some(node.value) ELSE None

extractValue(node) ==
  CASE node.kind = "StringLiteral" -> Some(node.value)
    [] node.kind = "NumericLiteral" -> Some(NatToStr(node.value))
    [] OTHER -> Some(getText(node))

\* the record parseColumn starts from
NewColumn(columnName) ==
  [name |-> columnName, type |-> s_unknown, nullable |-> TRUE,
   primaryKey |-> FALSE, unique |-> FALSE, defaultValue |-> None,
   length |-> None, precision |-> None, scale |-> None, enumValues |-> None,
   references |-> None, comments |-> None]

\* one pass of the loop of parseTypeOptions
parseTypeOption(column, prop) ==
  IF prop.kind # "PropertyAssignment" THEN column
  ELSE IF Len(prop.name) = 0 \/ IsNone(prop.initializer) THEN column
  ELSE LET value == Get(prop.initializer)
       IN  CASE prop.name = s_length ->
                  [column EXCEPT !.length = extractNumericValue(value)]
             [] prop.name = s_precision ->
                  [column EXCEPT !.precision = extractNumericValue(value)]
             [] prop.name = s_scale ->
                  [column EXCEPT !.scale = extractNumericValue(value)]
             [] prop.name = s_enum ->
                  IF value.kind = "ArrayLiteralExpression"
                    THEN [column EXCEPT !.enumValues =
                            Some(Map(SelectSeq(Map(value.elements, extractStringValue),
                                               IsSome), Get))]
                    ELSE column
             [] OTHER -> column

parseTypeOptions(objectLiteral, column) ==
  FoldLeft(parseTypeOption, column, objectLiteral.properties)

parseColumnType(callExpr, column) ==
  LET expression == callExpr.expression
      typed == IF expression.kind = "Identifier"
                 THEN [column EXCEPT !.type = getText(expression)]
               ELSE IF expression.kind = "PropertyAccessExpression"
                 THEN [column EXCEPT !.type = expression.name]
               ELSE column
      args == callExpr.arguments
  IN  IF Len(args) > 1 /\ args[2].kind = "ObjectLiteralExpression"
        THEN parseTypeOptions(args[2], typed)
        ELSE typed

parseReferences(callExpr) ==
  LET args == callExpr.arguments
  IN  IF Len(args) = 0 THEN None
      ELSE LET arg == args[1]
           IN  IF /\ arg.kind = "ArrowFunction"
                  /\ arg.body.kind = "PropertyAccessExpression"
                  /\ arg.body.expression.kind = "Identifier"
                 THEN Some([table |-> getText(arg.body.expression),
                            column |-> arg.body.name])
                 ELSE None

getMethodName(callExpr) ==
  IF callExpr.expression.kind = "PropertyAccessExpression"
    THEN Some(callExpr.expression.name) ELSE None

\* st.column is the column being built; st.jobs holds, in the order they
\* were queued, the results the pending then-callbacks will receive
RECURSIVE parseMethodChain(_, _)
parseMethodChain(expr, st) ==
  LET methodName == getMethodName(expr)
  IN  IF IsNone(methodName) THEN st
      ELSE
        LET m == Get(methodName)
            applied ==
              CASE m = s_notNull -> [st EXCEPT !.column.nullable = FALSE]
                [] m = s_primaryKey -> [st EXCEPT !.column.primaryKey = TRUE]
                [] m = s_unique -> [st EXCEPT !.column.unique = TRUE]
                [] m = s_default ->
                     IF Len(expr.arguments) > 0
                       THEN [st EXCEPT !.column.defaultValue =
                               extractValue(expr.arguments[1])]
                       ELSE st
                [] m = s_defaultNow -> [st EXCEPT !.column.defaultValue = Some(s_NOW)]
                [] m = s_references ->
                     [st EXCEPT !.jobs = Append(@, parseReferences(expr))]
                [] OTHER -> st
            chainedExpr == expr.expression
        IN  IF chainedExpr.kind = "CallExpression"
              THEN parseMethodChain(chainedExpr, applied)
              ELSE applied

\* prop is the first PropertyAssignment ancestor of initialCallExpr
parseColumnMethods(prop, st) ==
  IF IsNone(prop.initializer) \/ Get(prop.initializer).kind # "CallExpression"
    THEN st
    ELSE parseMethodChain(Get(prop.initializer), st)

\* the then-callback of parseMethodChain: if (ref) column.references = ref
AttachReference(column, ref) ==
  IF IsSome(ref) THEN [column EXCEPT !.references = ref] ELSE column

\* the callbacks queued while parseColumnMethods ran are run, first in first
\* out, before the continuation of the await that follows them in the queue
RunMicrotasks(st) == FoldLeft(AttachReference, st.column, st.jobs)

\* if (this.options.includeComments) column.comments = extractComments(prop)
WithColumnComments(column, prop, options) ==
  IF options.includeComments
    THEN [column EXCEPT !.comments = extractComments(prop.leadingComments)]
    ELSE column

parseColumn(prop, options) ==
  IF Len(prop.name) = 0 THEN None
  ELSE IF IsNone(prop.initializer) \/ Get(prop.initializer).kind # "CallExpression"
    THEN None
  ELSE Some(WithColumnComments(
              RunMicrotasks(
                parseColumnMethods(prop,
                  [column |-> parseColumnType(Get(prop.initializer), NewColumn(prop.name)),
                   jobs |-> <<>>])),
              prop, options))

\* lines 247-261 with a loop that ends at the first entry parseColumn rejects
parseColumns_StopAtMalformed(objectLiteral, options) ==
  LET step(st, prop) ==
        IF st.stopped THEN st
        ELSE IF prop.kind = "PropertyAssignment" /\ IsSome(parseColumn(prop, options))
          THEN [st EXCEPT !.columns = Append(@, Get(parseColumn(prop, options)))]
          ELSE [st EXCEPT !.stopped = TRUE]
  IN  FoldLeft(step, [columns |-> <<>>, stopped |-> FALSE],
               objectLiteral.properties).columns

parseColumns(objectLiteral, options) ==
  LET \* one pass of the loop
      step(columns, prop) ==
        IF prop.kind = "PropertyAssignment"
          THEN LET column == parseColumn(prop, options)
               IN  IF IsSome(column) THEN Append(columns, Get(column)) ELSE columns
          ELSE columns
  IN  FoldLeft(step, <<>>, objectLiteral.properties)


\* the string literals of the classifier, the detector and the relation parser
s_to           == <<"t","o">>
s__to_         == <<"_","t","o","_">>
s_log          == <<"l","o","g">>
s_audit        == <<"a","u","d","i","t">>
s_history      == <<"h","i","s","t","o","r","y">>
s_name         == <<"n","a","m","e">>
s_type         == <<"t","y","p","e">>
s_status       == <<"s","t","a","t","u","s">>
s_category     == <<"c","a","t","e","g","o","r","y">>
s_created      == <<"c","r","e","a","t","e","d">>
s_updated      == <<"u","p","d","a","t","e","d">>
s_deleted      == <<"d","e","l","e","t","e","d">>
s_at           == <<"a","t">>
s_version      == <<"v","e","r","s","i","o","n">>
s__version     == <<"_","v","e","r","s","i","o","n">>
s_Table        == <<"T","a","b","l","e">>
s_pg           == <<"p","g">>
s_mysql        == <<"m","y","s","q","l">>
s_sqlite       == <<"s","q","l","i","t","e">>
s_relations    == <<"r","e","l","a","t","i","o","n","s">>
s_one          == <<"o","n","e">>
s_many         == <<"m","a","n","y">>
s_Relations    == <<"R","e","l","a","t","i","o","n","s">>
s_fields       == <<"f","i","e","l","d","s">>
s_relationName == <<"r","e","l","a","t","i","o","n","N","a","m","e">>
s_self         == <<"s","e","l","f">>
s_parent       == <<"p","a","r","e","n","t">>
s_child        == <<"c","h","i","l","d">>
s_y            == <<"y">>
s_ies          == <<"i","e","s">>
s_s            == <<"s">>

(***************************************************************************)
(* Entity Classifier and Audit-Column Detector.                            *)
(***************************************************************************)
HasReferences(col) == IsSome(col.references)

IsIdColumn(col) ==
  /\ endsWith(toLowerCase(col.name), s_id)
  /\ toLowerCase(col.name) # s_id

\* lines 543-586 with a name test that reads the first column only
classifyEntity_FirstColumn(entity) ==
  LET name == toLowerCase(entity.name)
      tableName == toLowerCase(entity.tableName)
      foreignKeyCount == Len(SelectSeq(entity.columns, HasReferences))
      hasJunctionPattern ==
        \/ includes(name, s_to) \/ includes(name, s__to_)
        \/ includes(tableName, s__to_) \/ includes(tableName, s_to)
      idColumns == SelectSeq(entity.columns, IsIdColumn)
      hasOnlyIdAndName ==
        /\ Len(entity.columns) <= 4
        /\ Len(entity.columns) > 0
        /\ \/ includes(entity.columns[1].name, s_name)
           \/ includes(entity.columns[1].name, s_title)
  IN  IF /\ (hasJunctionPattern \/ Len(idColumns) >= 2)
         /\ Len(entity.columns) <= 6
         /\ Len(entity.primaryKeys) = 0
        THEN "transactional-many-to-many"
      ELSE IF foreignKeyCount >= 2 THEN "association"
      ELSE IF \/ includes(name, s_log) \/ includes(name, s_audit)
              \/ includes(name, s_history)
        THEN "audit"
      ELSE IF \/ hasOnlyIdAndName \/ includes(name, s_type)
              \/ includes(name, s_status) \/ includes(name, s_category)
        THEN "reference"
      ELSE "transactional"

\* lines 543-586 with the audit rule tried before the association rule
classifyEntity_AuditFirst(entity) ==
  LET name == toLowerCase(entity.name)
      tableName == toLowerCase(entity.tableName)
      foreignKeyCount == Len(SelectSeq(entity.columns, HasReferences))
      hasJunctionPattern ==
        \/ includes(name, s_to) \/ includes(name, s__to_)
        \/ includes(tableName, s__to_) \/ includes(tableName, s_to)
      idColumns == SelectSeq(entity.columns, IsIdColumn)
      hasOnlyIdAndName ==
        /\ Len(entity.columns) <= 4
        /\ \E i \in 1..Len(entity.columns) :
             \/ includes(entity.columns[i].name, s_name)
             \/ includes(entity.columns[i].name, s_title)
  IN  IF /\ (hasJunctionPattern \/ Len(idColumns) >= 2)
         /\ Len(entity.columns) <= 6
         /\ Len(entity.primaryKeys) = 0
        THEN "transactional-many-to-many"
      ELSE IF \/ includes(name, s_log) \/ includes(name, s_audit)
              \/ includes(name, s_history)
        THEN "audit"
      ELSE IF foreignKeyCount >= 2 THEN "association"
      ELSE IF \/ hasOnlyIdAndName \/ includes(name, s_type)
              \/ includes(name, s_status) \/ includes(name, s_category)
        THEN "reference"
      ELSE "transactional"

classifyEntity(entity) ==
  LET name == toLowerCase(entity.name)
      tableName == toLowerCase(entity.tableName)
      foreignKeyCount == Len(SelectSeq(entity.columns, HasReferences))
      hasJunctionPattern ==
        \/ includes(name, s_to) \/ includes(name, s__to_)
        \/ includes(tableName, s__to_) \/ includes(tableName, s_to)
      idColumns == SelectSeq(entity.columns, IsIdColumn)
      hasOnlyIdAndName ==
        /\ Len(entity.columns) <= 4
        /\ \E i \in 1..Len(entity.columns) :
             \/ includes(entity.columns[i].name, s_name)
             \/ includes(entity.columns[i].name, s_title)
  IN  IF /\ (hasJunctionPattern \/ Len(idColumns) >= 2)
         /\ Len(entity.columns) <= 6
         /\ Len(entity.primaryKeys) = 0
        THEN "transactional-many-to-many"
      ELSE IF foreignKeyCount >= 2 THEN "association"
      ELSE IF \/ includes(name, s_log) \/ includes(name, s_audit)
              \/ includes(name, s_history)
        THEN "audit"
      ELSE IF \/ hasOnlyIdAndName \/ includes(name, s_type)
              \/ includes(name, s_status) \/ includes(name, s_category)
        THEN "reference"
      ELSE "transactional"

\* one pass of the loop of detectAuditColumns
detectAuditColumn(audit, col) ==
  LET name == toLowerCase(col.name)
  IN  IF includes(name, s_created) /\ includes(name, s_at)
        THEN [audit EXCEPT !.createdAt = Some(col.name)]
      ELSE IF includes(name, s_updated) /\ includes(name, s_at)
        THEN [audit EXCEPT !.updatedAt = Some(col.name)]
      ELSE IF includes(name, s_deleted) /\ includes(name, s_at)
        THEN [audit EXCEPT !.deletedAt = Some(col.name)]
      ELSE IF name = s_version \/ name = s__version
        THEN [audit EXCEPT !.version = Some(col.name)]
      ELSE audit

detectAuditColumns(columns) ==
  FoldLeft(detectAuditColumn,
           [createdAt |-> None, updatedAt |-> None, deletedAt |-> None,
            version |-> None],
           columns)

(***************************************************************************)
(* Declaration Detector and table declarations.                            *)
(***************************************************************************)
\* export? const name = initializer, with the comment ranges that lead the
\* variable statement and those that lead the declaration itself
VariableDeclaration(exported, name, initializer, statementComments, leading) ==
  [kind |-> "VariableDeclaration", exported |-> exported, name |-> name,
   initializer |-> initializer, statementComments |-> statementComments,
   leadingComments |-> leading]

isTableDeclaration(decl) ==
  IF IsNone(decl.initializer) \/ Get(decl.initializer).kind # "CallExpression"
    THEN FALSE
    ELSE LET expression == getText(Get(decl.initializer).expression)
         IN  /\ includes(expression, s_Table)
             /\ \/ includes(expression, s_pg)
                \/ includes(expression, s_mysql)
                \/ includes(expression, s_sqlite)

IsPrimaryKey(col) == col.primaryKey
ColumnName(col) == col.name

\* entity.columns.filter((col) => col.primaryKey).map((col) => col.name)
PrimaryKeysOf(columns) == Map(SelectSeq(columns, IsPrimaryKey), ColumnName)

\* a string is falsy when it is undefined or empty
Falsy(o) == IsNone(o) \/ Len(Get(o)) = 0

\* lines 209-217
NewEntity(name, tableName, columns) ==
  [name |-> name, tableName |-> tableName, columns |-> columns,
   primaryKeys |-> <<>>, foreignKeys |-> <<>>, indexes |-> <<>>,
   checks |-> <<>>, relations |-> None, comments |-> None,
   entityType |-> None, auditColumns |-> None]

\* the comments of the statement or, when it has none, of the declaration
DeclarationComments(fromStatement, decl) ==
  IF Falsy(fromStatement) THEN extractComments(decl.leadingComments) ELSE fromStatement

\* lines 219-229
WithEntityComments(entity, decl, options) ==
  IF options.includeComments
    THEN [entity EXCEPT !.comments =
            DeclarationComments(extractComments(decl.statementComments), decl)]
    ELSE entity

\* lines 231-234 with a classification that reads the parser's options
WithEntityType_ByOptions(entity, options) ==
  IF options.classifyEntities
    THEN [entity EXCEPT !.entityType =
            Some(IF options.analyzePatterns THEN classifyEntity(entity)
                 ELSE "transactional")]
    ELSE entity

\* lines 231-234
WithEntityType(entity, options) ==
  IF options.classifyEntities
    THEN [entity EXCEPT !.entityType = Some(classifyEntity(entity))]
    ELSE entity

\* lines 236-239
WithAuditColumns(entity, options) ==
  IF options.detectAuditColumns
    THEN [entity EXCEPT !.auditColumns = Some(detectAuditColumns(entity.columns))]
    ELSE entity

\* lines 241-242 without the filter on the primaryKey flag
WithPrimaryKeys_AllColumns(entity) ==
  [entity EXCEPT !.primaryKeys = Map(entity.columns, ColumnName)]

\* lines 241-242
WithPrimaryKeys(entity) == [entity EXCEPT !.primaryKeys = PrimaryKeysOf(entity.columns)]

parseTableDeclaration(decl, options) ==
  IF IsNone(decl.initializer) \/ Get(decl.initializer).kind # "CallExpression"
    THEN None
  ELSE IF Len(Get(decl.initializer).arguments) < 2 THEN None
  ELSE IF Falsy(extractStringValue(Get(decl.initializer).arguments[1])) THEN None
  ELSE IF Get(decl.initializer).arguments[2].kind # "ObjectLiteralExpression" THEN None
  ELSE Some(WithPrimaryKeys(
              WithAuditColumns(
                WithEntityType(
                  WithEntityComments(
                    NewEntity(decl.name,
                              Get(extractStringValue(Get(decl.initializer).arguments[1])),
                              parseColumns(Get(decl.initializer).arguments[2], options)),
                    decl, options),
                  options),
                options)))

(***************************************************************************)
(* Relation Parser.                                                        *)
(***************************************************************************)
FunctionExpression(body) == [kind |-> "FunctionExpression", body |-> body]
Block(statements) == [kind |-> "Block", statements |-> statements]
ReturnStatement(expression) == [kind |-> "ReturnStatement", expression |-> expression]
Parenthesized(expression) ==
  [kind |-> "ParenthesizedExpression", expression |-> expression]

isRelationDeclaration(decl) ==
  IF IsNone(decl.initializer) \/ Get(decl.initializer).kind # "CallExpression"
    THEN FALSE
    ELSE getText(Get(decl.initializer).expression) = s_relations

\* the table taken from the first argument of relations(...) instead of the
\* declared name
getTableNameFromRelationDeclaration_ByArgument(decl) ==
  IF IsNone(decl.initializer) \/ Get(decl.initializer).kind # "CallExpression"
    THEN None
  ELSE IF Len(Get(decl.initializer).arguments) = 0 THEN None
  ELSE Some(getText(Get(decl.initializer).arguments[1]))

\* declName.match(/^(.+)Relations$/)?.[1] ?? null
getTableNameFromRelationDeclaration(decl) ==
  LET declName == decl.name
  IN  IF Len(declName) = 0 THEN None
      ELSE IF endsWith(declName, s_Relations) /\ Len(declName) > Len(s_Relations)
        THEN Some(SubSeq(declName, 1, Len(declName) - Len(s_Relations)))
        ELSE None

\* the start of the run of word characters that ends at position e
RECURSIVE WordStart(_, _)
WordStart(text, e) ==
  IF e > 1 /\ IsWordChar(text[e - 1]) THEN WordStart(text, e - 1) ELSE e

\* the end of the run of word characters that starts at position b
RECURSIVE WordEnd(_, _)
WordEnd(text, b) ==
  IF b < Len(text) /\ IsWordChar(text[b + 1]) THEN WordEnd(text, b + 1) ELSE b

\* text.match(/\b(\w+)\s*$/)?.[1] ?? null
extractTableReference(arg) ==
  LET text == getText(arg)
      e == Len(trimEnd(text))
  IN  IF e > 0 /\ IsWordChar(text[e])
        THEN Some(SubSeq(text, WordStart(text, e), e))
        ELSE None

\* element text: match(/\b\w+\.(\w+)\b/)?.[1] ?? text.replace(/['"]/g, "")
extractArrayValue(element) ==
  LET text == getText(element)
      IsDot(i) == /\ text[i] = "."
                  /\ i > 1 /\ IsWordChar(text[i - 1])
                  /\ i < Len(text) /\ IsWordChar(text[i + 1])
  IN  IF \E i \in 1..Len(text) : IsDot(i)
        THEN LET d == CHOOSE i \in 1..Len(text) :
                        IsDot(i) /\ \A k \in 1..(i - 1) : ~IsDot(k)
             IN  SubSeq(text, d + 1, WordEnd(text, d + 1))
        ELSE RemoveAll(text, << <<"'">>, <<"\"">> >>)

extractArrayValues(arrayLiteral) ==
  IF arrayLiteral.kind # "ArrayLiteralExpression" THEN <<>>
  ELSE SelectSeq(Map(arrayLiteral.elements, extractArrayValue), NonEmptyString)

\* lines 792-801 with the relation name compared as it is written
checkIfSelfReferencing_CaseSensitive(relation) ==
  /\ IsSome(relation.relationName)
  /\ \/ includes(Get(relation.relationName), s_self)
     \/ includes(Get(relation.relationName), s_parent)
     \/ includes(Get(relation.relationName), s_child)

checkIfSelfReferencing(relation) ==
  /\ IsSome(relation.relationName)
  /\ \/ includes(toLowerCase(Get(relation.relationName)), s_self)
     \/ includes(toLowerCase(Get(relation.relationName)), s_parent)
     \/ includes(toLowerCase(Get(relation.relationName)), s_child)

refineRelationType(relation, originalType) ==
  IF \/ includes(toLowerCase(relation.relatedTable), s_to)
     \/ includes(toLowerCase(relation.name), s_to)
    THEN "many-to-many"
  ELSE IF /\ originalType = "one"
          /\ IsSome(relation.fields) /\ IsSome(relation.references)
    THEN "many-to-one"
  ELSE IF originalType = "one" THEN "one-to-one"
  ELSE "one-to-many"

\* one pass of the loop over the properties of the configuration object
parseRelationConfig(relation, configProp) ==
  IF configProp.kind # "PropertyAssignment" THEN relation
  ELSE
    LET propName == configProp.name
        propValue == configProp.initializer
    IN  CASE propName = s_fields ->
               IF IsSome(propValue) /\ Get(propValue).kind = "ArrayLiteralExpression"
                 THEN [relation EXCEPT !.fields = Some(extractArrayValues(Get(propValue)))]
                 ELSE relation
          [] propName = s_references ->
               IF IsSome(propValue) /\ Get(propValue).kind = "ArrayLiteralExpression"
                 THEN [relation EXCEPT !.references =
                         Some(extractArrayValues(Get(propValue)))]
                 ELSE relation
          [] propName = s_relationName ->
               IF IsSome(propValue) /\ Get(propValue).kind = "StringLiteral"
                 THEN [relation EXCEPT !.relationName = Some(Get(propValue).value)]
                 ELSE relation
          [] OTHER -> relation

\* lines 722-727
NewRelation(name, type, relatedTable) ==
  [name |-> name, type |-> type, relatedTable |-> relatedTable,
   isSelfReferencing |-> FALSE,
   fields |-> None, references |-> None, relationName |-> None,
   finalTarget |-> None, junctionTable |-> None]

\* lines 729-758
WithConfig(relation, args) ==
  IF Len(args) > 1 /\ args[2].kind = "ObjectLiteralExpression"
    THEN FoldLeft(parseRelationConfig, relation, args[2].properties)
    ELSE relation

\* lines 760-761
WithSelfReferencing(relation) ==
  [relation EXCEPT !.isSelfReferencing = checkIfSelfReferencing(relation)]

\* lines 763-764
WithRefinedType(relation, type) ==
  [relation EXCEPT !.type = refineRelationType(relation, type)]

\* lines 698-705: the tentative type, none for another helper
TentativeType(expression) ==
  IF expression = s_one THEN Some("one-to-one")
  ELSE IF expression = s_many THEN Some("one-to-many")
  ELSE None

\* lines 695-766, for a call of one or many that has arguments
parseRelationCall(name, type, args) ==
  IF IsNone(extractTableReference(args[1])) THEN None
  ELSE Some(WithRefinedType(
              WithSelfReferencing(
                WithConfig(NewRelation(name, type, Get(extractTableReference(args[1]))),
                           args)),
              type))

parseRelationProperty(prop) ==
  IF Len(prop.name) = 0 THEN None
  ELSE IF IsNone(prop.initializer) \/ Get(prop.initializer).kind # "CallExpression"
    THEN None
  ELSE IF IsNone(TentativeType(getText(Get(prop.initializer).expression))) THEN None
  ELSE IF Len(Get(prop.initializer).arguments) = 0 THEN None
  ELSE parseRelationCall(prop.name,
                         Get(TentativeType(getText(Get(prop.initializer).expression))),
                         Get(prop.initializer).arguments)

\* the object literal the relations function returns, if it returns one
RelationsObject(relationsArg) ==
  LET body == relationsArg.body
      IsReturn(stmt) == stmt.kind = "ReturnStatement"
  IN  IF body.kind = "ObjectLiteralExpression" THEN Some(body)
      ELSE IF body.kind = "Block"
        THEN LET returns == SelectSeq(body.statements, IsReturn)
             IN  IF /\ Len(returns) > 0
                    /\ IsSome(returns[1].expression)
                    /\ Get(returns[1].expression).kind = "ObjectLiteralExpression"
                   THEN returns[1].expression
                   ELSE None
      ELSE IF body.kind = "ParenthesizedExpression"
        THEN IF body.expression.kind = "ObjectLiteralExpression"
               THEN Some(body.expression) ELSE None
      ELSE None

parseRelationDeclaration(decl) ==
  IF IsNone(decl.initializer) \/ Get(decl.initializer).kind # "CallExpression"
    THEN None
  ELSE
    LET args == Get(decl.initializer).arguments
    IN  IF Len(args) < 2 THEN None
        ELSE IF args[2].kind \notin {"ArrowFunction", "FunctionExpression"} THEN None
        ELSE IF IsNone(RelationsObject(args[2])) THEN None
        ELSE
          LET \* one pass of the loop over the properties
              step(relations, prop) ==
                IF prop.kind = "PropertyAssignment"
                  THEN LET relation == parseRelationProperty(prop)
                       IN  IF IsSome(relation) THEN Append(relations, Get(relation))
                           ELSE relations
                  ELSE relations
              relations == FoldLeft(step, <<>>, Get(RelationsObject(args[2])).properties)
          IN  IF Len(relations) > 0 THEN Some(relations) ELSE None


(***************************************************************************)
(* Many-to-Many Resolver.                                                  *)
(***************************************************************************)
\* new Map(entities.map(e => [e.name, e])): a later entity replaces an
\* earlier one of the same name
MapHas(entities, name) == \E i \in 1..Len(entities) : entities[i].name = name

\* the position in entities of the entity the map holds under name
MapGet(entities, name) ==
  CHOOSE i \in 1..Len(entities) :
    /\ entities[i].name = name
    /\ \A k \in (i + 1)..Len(entities) : entities[k].name # name

IsJunctionEntity(e) == e.entityType = Some("transactional-many-to-many")

ReferencedTable(fk) == Get(fk.references).table

\* the table name inferred from an id column: userId -> users
InferredTableName(idCol) ==
  LET colName == toLowerCase(idCol.name)
      tableName == replace(colName, s_id, <<>>)
  IN  IF endsWith(tableName, s_y)
        THEN SubSeq(tableName, 1, Len(tableName) - 1) \o s_ies
        ELSE tableName \o s_s

\* the related tables of a junction table, lines 831-861
RelatedTables(entities, junctionTable) ==
  LET foreignKeys == SelectSeq(junctionTable.columns, HasReferences)
      idColumns == SelectSeq(junctionTable.columns, IsIdColumn)
      step(relatedTables, idCol) ==
        IF MapHas(entities, InferredTableName(idCol))
          THEN Append(relatedTables, InferredTableName(idCol))
          ELSE relatedTables
  IN  IF Len(foreignKeys) >= 2
        THEN Map(foreignKeys, ReferencedTable)
        ELSE FoldLeft(step, <<>>, idColumns)

\* the position of the first element of seq that satisfies Test, or 0
FindIndex(seq, Test(_)) ==
  IF \E i \in 1..Len(seq) : Test(seq[i])
    THEN CHOOSE i \in 1..Len(seq) : Test(seq[i]) /\ \A k \in 1..(i - 1) : ~Test(seq[k])
    ELSE 0

\* lines 865-885 with a find that skips the relations already resolved
resolveRelatedTable_SkipResolved(entities, junctionName, relatedTables, sourceTableName) ==
  IF Len(sourceTableName) = 0 THEN entities
  ELSE IF ~MapHas(entities, sourceTableName) THEN entities
  ELSE
    LET s == MapGet(entities, sourceTableName)
        sourceEntity == entities[s]
    IN  IF IsNone(sourceEntity.relations) THEN entities
        ELSE
          LET relations == Get(sourceEntity.relations)
              PointsAtJunction(r) ==
                /\ r.relatedTable = junctionName /\ r.type = "many-to-many"
                /\ IsNone(r.finalTarget)
              j == FindIndex(relations, PointsAtJunction)
              Other(table) == table # sourceTableName
              o == FindIndex(relatedTables, Other)
          IN  IF j = 0 THEN entities
              ELSE IF o = 0 \/ Len(relatedTables[o]) = 0 THEN entities
              ELSE [entities EXCEPT
                      ![s].relations =
                         Some([relations EXCEPT
                                 ![j].finalTarget = Some(relatedTables[o]),
                                 ![j].junctionTable = Some(junctionName)])]

\* lines 865-885 with the relation also pointed at its final target
resolveRelatedTable_Retarget(entities, junctionName, relatedTables, sourceTableName) ==
  IF Len(sourceTableName) = 0 THEN entities
  ELSE IF ~MapHas(entities, sourceTableName) THEN entities
  ELSE
    LET s == MapGet(entities, sourceTableName)
        sourceEntity == entities[s]
    IN  IF IsNone(sourceEntity.relations) THEN entities
        ELSE
          LET relations == Get(sourceEntity.relations)
              PointsAtJunction(r) ==
                r.relatedTable = junctionName /\ r.type = "many-to-many"
              j == FindIndex(relations, PointsAtJunction)
              Other(table) == table # sourceTableName
              o == FindIndex(relatedTables, Other)
          IN  IF j = 0 THEN entities
              ELSE IF o = 0 \/ Len(relatedTables[o]) = 0 THEN entities
              ELSE [entities EXCEPT
                      ![s].relations =
                         Some([relations EXCEPT
                                 ![j].relatedTable = relatedTables[o],
                                 ![j].finalTarget = Some(relatedTables[o]),
                                 ![j].junctionTable = Some(junctionName)])]

\* lines 865-885 with the last other table taken as the final target
resolveRelatedTable_LastOther(entities, junctionName, relatedTables, sourceTableName) ==
  IF Len(sourceTableName) = 0 THEN entities
  ELSE IF ~MapHas(entities, sourceTableName) THEN entities
  ELSE
    LET s == MapGet(entities, sourceTableName)
        sourceEntity == entities[s]
    IN  IF IsNone(sourceEntity.relations) THEN entities
        ELSE
          LET relations == Get(sourceEntity.relations)
              PointsAtJunction(r) ==
                r.relatedTable = junctionName /\ r.type = "many-to-many"
              j == FindIndex(relations, PointsAtJunction)
              Other(table) == table # sourceTableName
              o == IF FindIndex(relatedTables, Other) = 0 THEN 0
                   ELSE CHOOSE x \in 1..Len(relatedTables) :
                          /\ Other(relatedTables[x])
                          /\ \A y \in (x + 1)..Len(relatedTables) :
                               ~Other(relatedTables[y])
          IN  IF j = 0 THEN entities
              ELSE IF o = 0 \/ Len(relatedTables[o]) = 0 THEN entities
              ELSE [entities EXCEPT
                      ![s].relations =
                         Some([relations EXCEPT
                                 ![j].finalTarget = Some(relatedTables[o]),
                                 ![j].junctionTable = Some(junctionName)])]

\* lines 865-885 with the first related table taken as the final target,
\* whether or not it is the source table
resolveRelatedTable_FirstTable(entities, junctionName, relatedTables, sourceTableName) ==
  IF Len(sourceTableName) = 0 THEN entities
  ELSE IF ~MapHas(entities, sourceTableName) THEN entities
  ELSE
    LET s == MapGet(entities, sourceTableName)
        sourceEntity == entities[s]
    IN  IF IsNone(sourceEntity.relations) THEN entities
        ELSE
          LET relations == Get(sourceEntity.relations)
              PointsAtJunction(r) ==
                r.relatedTable = junctionName /\ r.type = "many-to-many"
              j == FindIndex(relations, PointsAtJunction)
          IN  IF j = 0 THEN entities
              ELSE IF Len(relatedTables[1]) = 0 THEN entities
              ELSE [entities EXCEPT
                      ![s].relations =
                         Some([relations EXCEPT
                                 ![j].finalTarget = Some(relatedTables[1]),
                                 ![j].junctionTable = Some(junctionName)])]

\* one pass of the loop over relatedTables, lines 865-885
resolveRelatedTable(entities, junctionName, relatedTables, sourceTableName) ==
  IF Len(sourceTableName) = 0 THEN entities
  ELSE IF ~MapHas(entities, sourceTableName) THEN entities
  ELSE
    LET s == MapGet(entities, sourceTableName)
        sourceEntity == entities[s]
    IN  IF IsNone(sourceEntity.relations) THEN entities
        ELSE
          LET relations == Get(sourceEntity.relations)
              PointsAtJunction(r) ==
                r.relatedTable = junctionName /\ r.type = "many-to-many"
              j == FindIndex(relations, PointsAtJunction)
              Other(table) == table # sourceTableName
              o == FindIndex(relatedTables, Other)
          IN  IF j = 0 THEN entities
              ELSE IF o = 0 \/ Len(relatedTables[o]) = 0 THEN entities
              ELSE [entities EXCEPT
                      ![s].relations =
                         Some([relations EXCEPT
                                 ![j].finalTarget = Some(relatedTables[o]),
                                 ![j].junctionTable = Some(junctionName)])]

\* the loop over the junction tables with its inner loop run over every
\* entity instead of the related tables
resolveJunctionTable_AllEntities(entities, k) ==
  LET junctionTable == entities[k]
      relatedTables == RelatedTables(entities, junctionTable)
      names == [ i \in 1..Len(entities) |-> entities[i].name ]
      step(ents, sourceTableName) ==
        resolveRelatedTable(ents, junctionTable.name, relatedTables, sourceTableName)
  IN  IF Len(relatedTables) >= 2
        THEN FoldLeft(step, entities, names)
        ELSE entities

\* one pass of the loop over the junction tables; k is the position in
\* entities of the junction table
resolveJunctionTable(entities, k) ==
  LET junctionTable == entities[k]
      relatedTables == RelatedTables(entities, junctionTable)
      step(ents, sourceTableName) ==
        resolveRelatedTable(ents, junctionTable.name, relatedTables, sourceTableName)
  IN  IF Len(relatedTables) >= 2
        THEN FoldLeft(step, entities, relatedTables)
        ELSE entities

resolveManyToManyRelations(entities) ==
  LET positions == [ i \in 1..Len(entities) |-> i ]
      IsJunctionAt(i) == IsJunctionEntity(entities[i])
      junctionTables == SelectSeq(positions, IsJunctionAt)
  IN  FoldLeft(resolveJunctionTable, entities, junctionTables)


(***************************************************************************)
(* The parser and the per-file loop of the command, as a state machine.    *)
(***************************************************************************)
VARIABLES
  batch,              \* the calls to make: a sequence of [file, options]
  fileIdx,            \* the position in batch of the file being processed
  pc,                 \* where the processing of that file stands
  options,            \* this.options of the parser of the current file
  project,            \* the paths (positions in batch) of the source files
                      \* the parser's project holds
  declIdx,            \* the position of the loop over the declarations
  entities,           \* the entities array of parseFile
  relations,          \* the relations map of parseFile
  extracted_entities, \* the command's result: file position -> entities
  colProp,            \* the property assignment a call of parseColumn is given
  colRecord,          \* the column object that call builds
  microtasks,         \* the jobs of the microtask queue, the next one first
  colResult           \* what the promise of that call is resolved with, if it is

vars == <<batch, fileIdx, pc, options, project, declIdx, entities, relations,
          extracted_entities, colProp, colRecord, microtasks, colResult>>

\* the state of one call of parseColumn, and the state of the loop of the
\* command
columnVars == <<colProp, colRecord, microtasks, colResult>>
fileVars == <<batch, fileIdx, pc, project, declIdx, entities, relations,
              extracted_entities>>

\* the constructor: the defaults, overridden by the options passed
Construct(given) ==
  LET pick(key) == IF key \in DOMAIN given THEN given[key] ELSE TRUE
  IN  [includeComments |-> pick("includeComments"),
       analyzePatterns |-> pick("analyzePatterns"),
       classifyEntities |-> pick("classifyEntities"),
       detectAuditColumns |-> pick("detectAuditColumns"),
       extractRelations |-> pick("extractRelations")]

IsExported(decl) == decl.exported

\* sourceFile.getVariableDeclarations().filter(exported).filter(isTableDeclaration)
tableDeclarations(sourceFile) ==
  SelectSeq(SelectSeq(sourceFile.declarations, IsExported), isTableDeclaration)

relationDeclarations(sourceFile) ==
  SelectSeq(SelectSeq(sourceFile.declarations, IsExported), isRelationDeclaration)

EmptyMap == [ k \in {} |-> <<>> ]
MapSet(map, key, value) ==
  [ k \in DOMAIN map \cup {key} |-> IF k = key THEN value ELSE map[k] ]

\* extract_entities_from_file: new DrizzleASTParser(options), then parseFile
\* up to its first loop
BeginFile ==
  /\ pc = "idle"
  /\ fileIdx <= Len(batch)
  /\ batch[fileIdx].file.readable
  /\ options' = Construct(batch[fileIdx].options)
  /\ project' = {fileIdx}
  /\ entities' = <<>>
  /\ relations' = EmptyMap
  /\ declIdx' = 1
  /\ pc' = "tables"
  /\ UNCHANGED <<batch, fileIdx, extracted_entities>>
  /\ UNCHANGED columnVars

\* the catch of extract_entities_from_file replaced by one around the loop
\* of the command: a file that cannot be read ends the batch
FailFile_AbortBatch ==
  /\ pc = "idle"
  /\ fileIdx <= Len(batch)
  /\ ~batch[fileIdx].file.readable
  /\ options' = Construct(batch[fileIdx].options)
  /\ fileIdx' = Len(batch) + 1
  /\ UNCHANGED <<batch, pc, project, declIdx, entities, relations,
                 extracted_entities>>
  /\ UNCHANGED columnVars

\* addSourceFileAtPath throws: the catch of extract_entities_from_file
\* returns [], which the command does not record
FailFile ==
  /\ pc = "idle"
  /\ fileIdx <= Len(batch)
  /\ ~batch[fileIdx].file.readable
  /\ options' = Construct(batch[fileIdx].options)
  /\ fileIdx' = fileIdx + 1
  /\ UNCHANGED <<batch, pc, project, declIdx, entities, relations,
                 extracted_entities>>
  /\ UNCHANGED columnVars

\* the sourceFile of parseFile
CurrentFile == batch[CHOOSE f \in project : TRUE].file

\* the loop over the table declarations leaving at the first declaration
\* parseTableDeclaration returns null for
ParseTable_StopAtMalformed ==
  /\ pc = "tables"
  /\ declIdx <= Len(tableDeclarations(CurrentFile))
  /\ LET entity == parseTableDeclaration(tableDeclarations(CurrentFile)[declIdx], options)
     IN  /\ entities' = IF IsSome(entity) THEN Append(entities, Get(entity)) ELSE entities
         /\ declIdx' = IF IsSome(entity) THEN declIdx + 1
                       ELSE Len(tableDeclarations(CurrentFile)) + 1
  /\ UNCHANGED <<batch, fileIdx, pc, options, project, relations, extracted_entities>>
  /\ UNCHANGED columnVars

\* one pass of the loop over the table declarations
ParseTable ==
  /\ pc = "tables"
  /\ declIdx <= Len(tableDeclarations(CurrentFile))
  /\ LET entity == parseTableDeclaration(tableDeclarations(CurrentFile)[declIdx], options)
     IN  entities' = IF IsSome(entity) THEN Append(entities, Get(entity)) ELSE entities
  /\ declIdx' = declIdx + 1
  /\ UNCHANGED <<batch, fileIdx, pc, options, project, relations, extracted_entities>>
  /\ UNCHANGED columnVars

\* the end of the loop over the table declarations: if (extractRelations)
EndTables ==
  /\ pc = "tables"
  /\ declIdx > Len(tableDeclarations(CurrentFile))
  /\ pc' = IF options.extractRelations THEN "relations" ELSE "return"
  /\ declIdx' = 1
  /\ UNCHANGED <<batch, fileIdx, options, project, entities, relations,
                 extracted_entities>>
  /\ UNCHANGED columnVars

\* one pass of the loop over the relation declarations
ParseRelation ==
  /\ pc = "relations"
  /\ declIdx <= Len(relationDeclarations(CurrentFile))
  /\ LET decl == relationDeclarations(CurrentFile)[declIdx]
         entityRelations == parseRelationDeclaration(decl)
         tableName == getTableNameFromRelationDeclaration(decl)
     IN  relations' = IF IsSome(entityRelations) /\ IsSome(tableName)
                        THEN MapSet(relations, Get(tableName), Get(entityRelations))
                        ELSE relations
  /\ declIdx' = declIdx + 1
  /\ UNCHANGED <<batch, fileIdx, pc, options, project, entities, extracted_entities>>
  /\ UNCHANGED columnVars

\* the loop that associates the relations with the entities
associateRelations(ents, rels) ==
  [ i \in 1..Len(ents) |->
      IF ents[i].name \in DOMAIN rels
        THEN [ents[i] EXCEPT !.relations = Some(rels[ents[i].name])]
        ELSE ents[i] ]

AssociateRelations ==
  /\ pc = "relations"
  /\ declIdx > Len(relationDeclarations(CurrentFile))
  /\ entities' = associateRelations(entities, relations)
  /\ pc' = "resolve"
  /\ UNCHANGED <<batch, fileIdx, options, project, declIdx, relations,
                 extracted_entities>>
  /\ UNCHANGED columnVars

Resolve ==
  /\ pc = "resolve"
  /\ entities' = resolveManyToManyRelations(entities)
  /\ pc' = "return"
  /\ UNCHANGED <<batch, fileIdx, options, project, declIdx, relations,
                 extracted_entities>>
  /\ UNCHANGED columnVars

\* removeSourceFile and return; the command records a non-empty result
ReturnFile ==
  /\ pc = "return"
  /\ project' = {}
  /\ extracted_entities' =
       IF Len(entities) > 0 THEN MapSet(extracted_entities, fileIdx, entities)
       ELSE extracted_entities
  /\ fileIdx' = fileIdx + 1
  /\ pc' = "idle"
  /\ UNCHANGED <<batch, options, declIdx, entities, relations>>
  /\ UNCHANGED columnVars

\* the loop over the schema files ends
Finish ==
  /\ pc = "idle"
  /\ fileIdx > Len(batch)
  /\ pc' = "done"
  /\ UNCHANGED <<batch, fileIdx, options, project, declIdx, entities, relations,
                 extracted_entities>>
  /\ UNCHANGED columnVars


(***************************************************************************)
(* The source documents the parser is run on.                              *)
(***************************************************************************)
s_userLogs       == <<"u","s","e","r","L","o","g","s">>
s_user_logs      == <<"u","s","e","r","_","l","o","g","s">>
s_createdAt      == <<"c","r","e","a","t","e","d","A","t">>
s_updatedAt      == <<"u","p","d","a","t","e","d","A","t">>
s_author         == <<"a","u","t","h","o","r">>
s_reviewer       == <<"r","e","v","i","e","w","e","r">>
s_readers        == <<"r","e","a","d","e","r","s">>
s_tagLinks       == <<"t","a","g","L","i","n","k","s">>
s_owner          == <<"o","w","n","e","r">>
s_bogus          == <<"b","o","g","u","s">>
s_hasMany        == <<"h","a","s","M","a","n","y">>
s_parentPost     == <<"p","a","r","e","n","t","P","o","s","t">>
s_parentId       == <<"p","a","r","e","n","t","I","d">>
s_mysqlTable     == <<"m","y","s","q","l","T","a","b","l","e">>
s_helper         == <<"h","e","l","p","e","r">>
s_usersRelations == <<"u","s","e","r","s","R","e","l","a","t","i","o","n","s">>
s_postsRelations == <<"p","o","s","t","s","R","e","l","a","t","i","o","n","s">>
s_tagsRelations  == <<"t","a","g","s","R","e","l","a","t","i","o","n","s">>
s_postsLinks     == <<"p","o","s","t","s","L","i","n","k","s">>
c_line          == <<"/","/"," ","t","h","e"," ","u","s","e","r","s"," ","o","f"," ","t","h","e"," ","s","i","t","e">>
c_jsdoc         == <<"/","*","*","\n"," ","*"," ","L","i","n","k","s"," ","p","o","s","t","s","\n"," ","*"," ","a","n","d"," ","t","a","g","s",".","\n"," ","*","\n"," ","*"," ","A"," ","j","u","n","c","t","i","o","n",".","\n"," ","*","/">>
c_block         == <<"/","*"," ","a","d","d","r","e","s","s"," ","*","/">>

SourceFile(declarations) == [readable |-> TRUE, declarations |-> declarations]
\* a file addSourceFileAtPath cannot read
UnreadableFile == [readable |-> FALSE, declarations |-> <<>>]

Job(file, given) == [file |-> file, options |-> given]
DefaultOptions == [ k \in {} |-> TRUE ]

Column(name, initializer) == PropertyAssignment(name, Some(initializer), <<>>)

\* the type call wrapped in the modifier calls, the first modifier innermost
Chain(typeCall, modifiers) ==
  LET wrap(expr, m) == Call(PropertyAccess(expr, m.name), m.arguments)
  IN  FoldLeft(wrap, typeCall, modifiers)

Modifier(name, arguments) == [name |-> name, arguments |-> arguments]
ReferenceTo(table, column) ==
  Modifier(s_references, <<ArrowFunction(PropertyAccess(Identifier(table), column))>>)

m_notNull    == Modifier(s_notNull, <<>>)
m_primaryKey == Modifier(s_primaryKey, <<>>)
m_unique     == Modifier(s_unique, <<>>)
m_default_a  == Modifier(s_default, <<StringLiteral(s_a)>>)
m_default_b  == Modifier(s_default, <<TrueLiteral>>)
m_defaultNow == Modifier(s_defaultNow, <<>>)

Modifiers == {m_notNull, m_primaryKey, m_unique, m_default_a, m_default_b,
              m_defaultNow, ReferenceTo(s_users, s_id)}

Integer(dbName) == Call(Identifier(s_integer), <<StringLiteral(dbName)>>)
Varchar(dbName, length) ==
  Call(Identifier(s_varchar),
       <<StringLiteral(dbName),
         ObjectLiteral(<<PropertyAssignment(s_length, Some(NumericLiteral(length)), <<>>)>>)>>)

s_numeric == <<"n","u","m","e","r","i","c">>
s_text    == <<"t","e","x","t">>

\* numeric('rank', { precision: 10, scale: 2 })
Numeric(dbName, precision, scale) ==
  Call(Identifier(s_numeric),
       <<StringLiteral(dbName),
         ObjectLiteral(<<PropertyAssignment(s_precision, Some(NumericLiteral(precision)), <<>>),
                         PropertyAssignment(s_scale, Some(NumericLiteral(scale)), <<>>)>>)>>)

\* text('status', { enum: ['a', 'b'] })
EnumText(dbName, values) ==
  Call(Identifier(s_text),
       <<StringLiteral(dbName),
         ObjectLiteral(<<PropertyAssignment(s_enum,
                           Some(ArrayLiteral(Map(values, StringLiteral))), <<>>)>>)>>)

TypeCalls == { Call(Identifier(s_integer), <<>>),
               Varchar(s_email, 100),
               Numeric(s_rank, 10, 2),
               EnumText(s_status, <<s_a, s_b>>),
               Call(PropertyAccess(Identifier(s_t), s_integer), <<StringLiteral(s_email)>>) }

TableDecl(name, tableName, properties, statementComments) ==
  VariableDeclaration(TRUE, name,
    Some(Call(Identifier(s_pgTable),
              <<StringLiteral(tableName), ObjectLiteral(properties)>>)),
    statementComments, <<>>)

SeqsUpTo(S, n) == UNION { [1..k -> S] : k \in 0..n }
InjectiveSeqsUpTo(S, n) ==
  { s \in SeqsUpTo(S, n) : \A i, j \in 1..Len(s) : s[i] = s[j] => i = j }

\* one table of one column, for every chain of at most MaxChain modifiers
ChainFiles ==
  { SourceFile(<<TableDecl(s_users, s_users,
                           <<Column(s_email, Chain(typeCall, modifiers))>>, <<>>)>>) :
      typeCall \in TypeCalls, modifiers \in SeqsUpTo(Modifiers, MaxChain) }

\* one table of one column whose chain sets the default value twice, with
\* another modifier before or after the two
RepeatedDefaultFiles ==
  { SourceFile(<<TableDecl(s_users, s_users,
                           <<Column(s_email, Chain(Integer(s_email), modifiers))>>, <<>>)>>) :
      modifiers \in
        UNION { { <<d1, d2, m>>, <<m, d1, d2>>, <<d1, m, d2>> } :
                  d1 \in {m_default_a, m_default_b, m_defaultNow},
                  d2 \in {m_default_a, m_default_b, m_defaultNow},
                  m \in {m_notNull, m_unique} } }

\* the entries the generated column maps are made of: three calls, a
\* string literal where a call is expected, and a shorthand property
ShapeEntries ==
  << Column(s_id, Chain(Integer(s_id), <<m_primaryKey>>)),
     Column(s_postId, Chain(Integer(s_postId), <<ReferenceTo(s_posts, s_id)>>)),
     Column(s_tagId, Chain(Integer(s_tagId), <<ReferenceTo(s_tags, s_id)>>)),
     Column(s_title, Chain(Varchar(s_title, 200), <<m_notNull>>)),
     Column(s_slug, StringLiteral(s_slug)),
     ShorthandProperty(s_rank) >>

ShapeNames ==
  { [name |-> s_posts, tableName |-> s_posts],
    [name |-> s_postsToTags, tableName |-> s_posts_tags],
    [name |-> s_userLogs, tableName |-> s_user_logs] }

ShapeFile(nm, order) ==
  SourceFile(<<TableDecl(nm.name, nm.tableName,
                         [ i \in 1..Len(order) |-> ShapeEntries[order[i]] ], <<>>)>>)

\* the positions of order, in increasing order
Canonical(order) ==
  LET Used(i) == \E k \in 1..Len(order) : order[k] = i
  IN  SelectSeq([ i \in 1..Len(ShapeEntries) |-> i ], Used)

\* a table shape in the order of ShapeEntries, then the same shape with its
\* column map in another order
ShapeBatches ==
  { << Job(ShapeFile(nm, Canonical(order)), DefaultOptions),
       Job(ShapeFile(nm, order), DefaultOptions) >> :
      nm \in ShapeNames,
      order \in InjectiveSeqsUpTo(1..Len(ShapeEntries), MaxCols) }

\* tables of five to seven columns, with and without a primary key
WideEntries ==
  << Column(s_id, Chain(Integer(s_id), <<m_primaryKey>>)),
     Column(s_postId, Chain(Integer(s_postId), <<ReferenceTo(s_posts, s_id)>>)),
     Column(s_tagId, Chain(Integer(s_tagId), <<>>)),
     Column(s_title, Chain(Varchar(s_title, 200), <<>>)),
     Column(s_body, Chain(Varchar(s_body, 200), <<>>)),
     Column(s_email, Chain(Varchar(s_email, 100), <<m_unique>>)),
     Column(s_createdAt, Chain(Integer(s_createdAt), <<m_defaultNow>>)),
     Column(s_updatedAt, Chain(Integer(s_updatedAt), <<m_defaultNow>>)) >>

WideFiles ==
  { SourceFile(<<TableDecl(nm.name, nm.tableName,
                           SubSeq(WideEntries, first, first + n - 1), <<>>)>>) :
      nm \in ShapeNames, first \in 1..2, n \in 5..7 }


\* name: helper(target) and name: helper(target, { config })
Relation(name, helper, target) ==
  PropertyAssignment(name, Some(Call(Identifier(helper), <<target>>)), <<>>)
RelationWith(name, helper, target, config) ==
  PropertyAssignment(name,
    Some(Call(Identifier(helper), <<target, ObjectLiteral(config)>>)), <<>>)
Config(key, value) == PropertyAssignment(key, Some(value), <<>>)

\* the entries the generated relation mappings are made of
RelationEntries ==
  { RelationWith(s_author, s_one, Identifier(s_users),
      <<Config(s_fields, ArrayLiteral(<<PropertyAccess(Identifier(s_posts), s_authorId)>>)),
        Config(s_references, ArrayLiteral(<<PropertyAccess(Identifier(s_users), s_id)>>))>>),
    Relation(s_author, s_one, Identifier(s_users)),
    RelationWith(s_reviewer, s_one, Identifier(s_users),
      <<Config(s_fields, ArrayLiteral(<<Identifier(s_authorId)>>))>>),
    Relation(s_owner, s_one, ArrowFunction(Identifier(s_users))),
    Relation(s_readers, s_many, Identifier(s_users)),
    Relation(s_postsToTags, s_many, Identifier(s_postsToTags)),
    Relation(s_tagLinks, s_many, Identifier(s_postsToTags)),
    RelationWith(s_parentPost, s_one, Identifier(s_posts),
      <<Config(s_fields, ArrayLiteral(<<PropertyAccess(Identifier(s_posts), s_parentId)>>)),
        Config(s_references, ArrayLiteral(<<PropertyAccess(Identifier(s_posts), s_id)>>)),
        Config(s_relationName, StringLiteral(s_parentPost))>>),
    Relation(s_bogus, s_hasMany, Identifier(s_users)) }

\* export const name = relations(table, (helpers) => ({ entries }))
RelationsDecl(name, table, entries) ==
  VariableDeclaration(TRUE, name,
    Some(Call(Identifier(s_relations),
              <<Identifier(table), ArrowFunction(Parenthesized(ObjectLiteral(entries)))>>)),
    <<>>, <<>>)

t_users ==
  TableDecl(s_users, s_users,
    << PropertyAssignment(s_id, Some(Chain(Integer(s_id), <<m_primaryKey>>)), <<c_block>>),
       Column(s_email, Chain(Varchar(s_email, 100), <<m_unique, m_notNull>>)) >>,
    <<c_line>>)
t_posts ==
  TableDecl(s_posts, s_posts,
    << Column(s_id, Chain(Integer(s_id), <<m_primaryKey>>)),
       Column(s_authorId, Chain(Integer(s_authorId), <<ReferenceTo(s_users, s_id)>>)) >>,
    <<>>)
t_tags ==
  TableDecl(s_tags, s_tags,
    << Column(s_id, Chain(Integer(s_id), <<m_primaryKey>>)),
       Column(s_title, Chain(Varchar(s_title, 200), <<>>)) >>,
    <<>>)
t_postsToTags ==
  TableDecl(s_postsToTags, s_posts_tags,
    << Column(s_postId, Chain(Integer(s_postId), <<ReferenceTo(s_posts, s_id)>>)),
       Column(s_tagId, Chain(Integer(s_tagId), <<ReferenceTo(s_tags, s_id)>>)) >>,
    <<c_jsdoc>>)

\* users, posts, tags and the junction postsToTags, with the relations of
\* users and tags fixed and every mapping of at most MaxRels entries for posts
RelationFiles ==
  { SourceFile(
      << t_users, t_posts, t_tags, t_postsToTags,
         RelationsDecl(s_usersRelations, s_users, <<Relation(s_posts, s_many, Identifier(s_posts))>>),
         RelationsDecl(s_postsRelations, s_posts, entries),
         RelationsDecl(s_tagsRelations, s_tags,
                       <<Relation(s_posts, s_many, Identifier(s_postsToTags))>>) >>) :
      entries \in InjectiveSeqsUpTo(RelationEntries, MaxRels) }

\* declarations the detector and the parsers must skip, among two it keeps
MiscFile ==
  SourceFile(
    << VariableDeclaration(FALSE, s_tags, t_tags.initializer, <<>>, <<>>),
       VariableDeclaration(TRUE, s_helper, Some(StringLiteral(s_a)), <<>>, <<>>),
       VariableDeclaration(TRUE, s_helper, None, <<>>, <<>>),
       VariableDeclaration(TRUE, s_helper,
         Some(Call(Identifier(s_helper), <<StringLiteral(s_a), ObjectLiteral(<<>>)>>)),
         <<>>, <<>>),
       VariableDeclaration(TRUE, s_users,
         Some(Call(Identifier(s_pgTable), <<StringLiteral(s_users)>>)), <<>>, <<>>),
       VariableDeclaration(TRUE, s_users,
         Some(Call(Identifier(s_pgTable), <<Identifier(s_users), ObjectLiteral(<<>>)>>)),
         <<>>, <<>>),
       VariableDeclaration(TRUE, s_users,
         Some(Call(Identifier(s_pgTable), <<StringLiteral(s_users), Identifier(s_helper)>>)),
         <<>>, <<>>),
       VariableDeclaration(TRUE, s_posts,
         Some(Call(PropertyAccess(Identifier(s_t), s_mysqlTable),
                   <<TemplateLiteral(s_posts), t_posts.initializer[1].arguments[2]>>)),
         <<>>, <<c_line>>),
       \* an empty table name
       VariableDeclaration(TRUE, s_tags,
         Some(Call(Identifier(s_pgTable), <<StringLiteral(<<>>), ObjectLiteral(<<>>)>>)),
         <<>>, <<>>),
       t_users,
       \* no Relations suffix
       RelationsDecl(s_postsLinks, s_posts, <<Relation(s_author, s_one, Identifier(s_users))>>),
       \* a block body that returns the mapping
       VariableDeclaration(TRUE, s_postsRelations,
         Some(Call(Identifier(s_relations),
                   <<Identifier(s_posts),
                     FunctionExpression(Block(
                       <<ReturnStatement(Some(ObjectLiteral(
                           <<Relation(s_author, s_one, Identifier(s_users))>>)))>>))>>)),
         <<>>, <<>>),
       \* a mapping with no usable entry
       RelationsDecl(s_usersRelations, s_users, <<Relation(s_bogus, s_hasMany, Identifier(s_posts))>>),
       \* no function argument
       VariableDeclaration(TRUE, s_tagsRelations,
         Some(Call(Identifier(s_relations), <<Identifier(s_tags)>>)), <<>>, <<>>) >>)

\* the options a caller passes to the constructor
OptionSets ==
  { DefaultOptions,
    [includeComments |-> FALSE],
    [analyzePatterns |-> FALSE],
    [classifyEntities |-> FALSE],
    [detectAuditColumns |-> FALSE],
    [extractRelations |-> FALSE],
    [includeComments |-> FALSE, analyzePatterns |-> FALSE, classifyEntities |-> FALSE,
     detectAuditColumns |-> FALSE, extractRelations |-> FALSE] }

ScenarioFile ==
  CHOOSE f \in RelationFiles :
    Len(f.declarations[6].initializer[1].arguments[2].body.expression.properties) = 0

\* the same table with and without leading comments, and after another table
VariantFiles ==
  { SourceFile(<<t_postsToTags>>),
    SourceFile(<<TableDecl(s_postsToTags, s_posts_tags,
                           t_postsToTags.initializer[1].arguments[2].properties, <<>>)>>),
    SourceFile(<<t_users, t_postsToTags>>) }

\* the entries the tables of RuleFiles are made of: no name ends in "id"
RuleEntries ==
  << Column(s_author, Chain(Integer(s_author), <<ReferenceTo(s_users, s_id)>>)),
     Column(s_owner, Chain(Integer(s_owner), <<ReferenceTo(s_users, s_id)>>)),
     Column(s_title, Chain(Varchar(s_title, 200), <<>>)),
     Column(s_body, Chain(Varchar(s_body, 200), <<>>)) >>

\* the subsequences of seq
SubSeqs(seq) ==
  { SelectSeq(seq, LAMBDA x : x \in kept) : kept \in SUBSET Range(seq) }

\* a table named posts, userLogs or status, of every choice of RuleEntries
RuleFiles ==
  { SourceFile(<<TableDecl(name, name, properties, <<>>)>>) :
      name \in {s_posts, s_userLogs, s_status},
      properties \in SubSeqs(RuleEntries) }

s_links == <<"l","i","n","k","s">>

\* posts and tags with their relations to postsToTags, which the file does
\* not define
RelationsOnlyFile ==
  SourceFile(
    << t_posts, t_tags,
       RelationsDecl(s_postsRelations, s_posts,
                     <<Relation(s_postsToTags, s_many, Identifier(s_postsToTags))>>),
       RelationsDecl(s_tagsRelations, s_tags,
                     <<Relation(s_posts, s_many, Identifier(s_postsToTags))>>) >>)

\* the relations in one file and the junction table in another, either first
CrossBatches ==
  { <<Job(RelationsOnlyFile, DefaultOptions),
      Job(SourceFile(<<t_postsToTags>>), DefaultOptions)>>,
    <<Job(SourceFile(<<t_postsToTags>>), DefaultOptions),
      Job(RelationsOnlyFile, DefaultOptions)>> }

\* the column maps of postsToTags: two references; one reference and an id
\* column; one reference and no other id column; two references to posts
JunctionColumns ==
  { t_postsToTags.initializer[1].arguments[2].properties,
    << Column(s_postId, Chain(Integer(s_postId), <<ReferenceTo(s_posts, s_id)>>)),
       Column(s_tagId, Integer(s_tagId)) >>,
    << Column(s_postId, Chain(Integer(s_postId), <<ReferenceTo(s_posts, s_id)>>)),
       Column(s_title, Varchar(s_title, 200)) >>,
    << Column(s_postId, Chain(Integer(s_postId), <<ReferenceTo(s_posts, s_id)>>)),
       Column(s_parentId, Chain(Integer(s_parentId), <<ReferenceTo(s_posts, s_id)>>)) >> }

s_videos       == <<"v","i","d","e","o","s">>
s_videoId      == <<"v","i","d","e","o","I","d">>
s_userLogId    == <<"u","s","e","r","L","o","g","I","d">>
s_categories   == <<"c","a","t","e","g","o","r","i","e","s">>
s_categoryId   == <<"c","a","t","e","g","o","r","y","I","d">>
s_userId       == <<"u","s","e","r","I","d">>
s_authors      == <<"a","u","t","h","o","r","s">>

\* a table of one primary-key column
KeyedTable(name) ==
  TableDecl(name, name, <<Column(s_id, Chain(Integer(s_id), <<m_primaryKey>>))>>, <<>>)

\* nameRelations = relations(name, ({ many }) => ({ links: many(postsToTags) }))
LinksDecl(name) ==
  RelationsDecl(name \o s_Relations, name,
                <<Relation(s_links, s_many, Identifier(s_postsToTags))>>)

\* a column of the junction table that references the id of a table
ReferenceColumn(name, table) ==
  Column(name, Chain(Integer(name), <<ReferenceTo(table, s_id)>>))

\* the column maps of the junction table of ResolverFiles: references to
\* three tables; to two tables, the first one twice; to a table the file
\* does not define; then id columns with no reference
ResolverColumns ==
  { << ReferenceColumn(s_userId, s_users), ReferenceColumn(s_postId, s_posts),
       ReferenceColumn(s_tagId, s_tags) >>,
    << ReferenceColumn(s_postId, s_posts), ReferenceColumn(s_parentId, s_posts),
       ReferenceColumn(s_tagId, s_tags) >>,
    << ReferenceColumn(s_postId, s_posts), ReferenceColumn(s_authorId, s_authors) >>,
    << Column(s_postId, Integer(s_postId)), Column(s_tagId, Integer(s_tagId)) >>,
    << Column(s_videoId, Integer(s_videoId)), Column(s_tagId, Integer(s_tagId)) >>,
    << Column(s_userLogId, Integer(s_userLogId)), Column(s_tagId, Integer(s_tagId)) >>,
    << Column(s_categoryId, Integer(s_categoryId)), Column(s_tagId, Integer(s_tagId)) >>,
    << Column(s_id, Integer(s_id)), Column(s_userId, Integer(s_userId)),
       Column(s_authorId, Integer(s_authorId)), Column(s_tagId, Integer(s_tagId)) >> }

ResolverTables == <<s_users, s_posts, s_tags, s_videos, s_userLogs, s_categories>>

\* six tables, the junction table postsToTags, and a relation of each of the
\* six to the junction table
ResolverFiles ==
  { SourceFile(
      [ i \in 1..Len(ResolverTables) |-> KeyedTable(ResolverTables[i]) ]
        \o <<TableDecl(s_postsToTags, s_posts_tags, properties, <<>>)>>
        \o [ i \in 1..Len(ResolverTables) |-> LinksDecl(ResolverTables[i]) ]) :
      properties \in ResolverColumns }

s_deletedAt        == <<"d","e","l","e","t","e","d","A","t">>
s_CREATED_AT       == <<"C","R","E","A","T","E","D","_","A","T">>
s_createdUpdatedAt == <<"c","r","e","a","t","e","d","U","p","d","a","t","e","d","A","t">>
s_Version          == <<"V","e","r","s","i","o","n">>

\* column names the audit detector reads: one per role, one in upper case,
\* one that satisfies the rules of two roles, and one of no role
AuditNames ==
  { s_createdAt, s_updatedAt, s_deletedAt, s_Version, s_CREATED_AT,
    s_createdUpdatedAt, s_title }

\* a table posts for every choice of at most MaxCols columns of AuditNames
AuditFiles ==
  { SourceFile(<<TableDecl(s_posts, s_posts,
                           [ i \in 1..Len(names) |-> Column(names[i], Integer(names[i])) ],
                           <<>>)>>) :
      names \in InjectiveSeqsUpTo(AuditNames, MaxCols) }

\* relation declarations named without the suffix, after another table than
\* the one they are given, and with the suffix alone
NamingFile ==
  SourceFile(
    << t_users, t_posts,
       RelationsDecl(s_postsLinks, s_posts,
                     <<Relation(s_author, s_one, Identifier(s_users))>>),
       RelationsDecl(s_usersRelations, s_posts,
                     <<Relation(s_posts, s_many, Identifier(s_posts))>>),
       RelationsDecl(s_Relations, s_users,
                     <<Relation(s_links, s_many, Identifier(s_posts))>>) >>)

s_replies      == <<"r","e","p","l","i","e","s">>
s_children     == <<"c","h","i","l","d","r","e","n">>
s_me           == <<"m","e">>
s_ChildPosts   == <<"C","h","i","l","d","P","o","s","t","s">>
s_mySELF       == <<"m","y","S","E","L","F">>
s_drafts       == <<"d","r","a","f","t","s">>

\* relations of posts to posts and to users, with and without a
\* relationName, one given as a template literal
SelfEntries ==
  { Relation(s_replies, s_many, Identifier(s_posts)),
    RelationWith(s_children, s_many, Identifier(s_posts),
      <<Config(s_relationName, StringLiteral(s_ChildPosts))>>),
    RelationWith(s_me, s_one, Identifier(s_posts),
      <<Config(s_relationName, StringLiteral(s_mySELF))>>),
    RelationWith(s_author, s_one, Identifier(s_users),
      <<Config(s_relationName, StringLiteral(s_author))>>),
    RelationWith(s_drafts, s_many, Identifier(s_posts),
      <<Config(s_relationName, TemplateLiteral(s_parentPost))>>) }

\* users and posts, with every mapping of at most MaxRels of SelfEntries
SelfFiles ==
  { SourceFile(<<t_users, t_posts, RelationsDecl(s_postsRelations, s_posts, entries)>>) :
      entries \in InjectiveSeqsUpTo(SelfEntries, MaxRels) }

\* comment ranges: a JSDoc block, a line comment and a block with no text;
\* paragraphs two blank lines apart; lines wrapped within a paragraph; a
\* block with no line markers
c_emptyJsdoc  == <<"/","*","*"," ","*","/">>
c_emptyLine   == <<"/","/"," "," ">>
c_blankBlock  == <<"/","*","\n"," ","*","\n"," ","*","/">>
c_twoBreaks   == <<"/","*","*","\n"," ","*"," ","a"," ","b","\n"," ","*","\n"," ","*","\n"," ","*"," ","c","\n"," ","*","/">>
c_wrapped     == <<"/","*","*","\n"," ","*"," ","o","n","e","\n"," ","*"," ","t","w","o","\n"," ","*","\n"," ","*"," ","t","h","r","e","e","\n"," ","*","/">>
c_rawBlock    == <<"/","*"," ","x","\n","\n","\n"," "," ","y"," ","*","/">>

MaxComments == 2

CommentTexts ==
  { c_line, c_jsdoc, c_block, c_emptyJsdoc, c_emptyLine, c_blankBlock,
    c_twoBreaks, c_wrapped, c_rawBlock }

\* a table users whose column id has, before it, every sequence of at most
\* MaxComments comment ranges
CommentFiles ==
  { SourceFile(<<TableDecl(s_users, s_users,
                           <<PropertyAssignment(s_id, Some(Integer(s_id)), leading)>>,
                           <<>>)>>) :
      leading \in SeqsUpTo(CommentTexts, MaxComments) }

\* users, posts and tags, each with a relation to postsToTags
JunctionFiles ==
  { SourceFile(
      << t_users, t_posts, t_tags,
         TableDecl(s_postsToTags, s_posts_tags, properties, <<>>),
         RelationsDecl(s_usersRelations, s_users,
                       <<Relation(s_links, s_many, Identifier(s_postsToTags))>>),
         RelationsDecl(s_postsRelations, s_posts,
                       <<Relation(s_postsToTags, s_many, Identifier(s_postsToTags)),
                         Relation(s_author, s_one, Identifier(s_users))>>),
         RelationsDecl(s_tagsRelations, s_tags,
                       <<Relation(s_posts, s_many, Identifier(s_postsToTags))>>) >>) :
      properties \in JunctionColumns }

Batches ==
  { <<Job(f, DefaultOptions)>> : f \in ChainFiles \cup RepeatedDefaultFiles \cup WideFiles \cup RelationFiles
                                       \cup RuleFiles
                                       \cup JunctionFiles \cup ResolverFiles \cup AuditFiles
                                       \cup {NamingFile} \cup SelfFiles \cup CommentFiles }
  \cup CrossBatches
  \cup ShapeBatches
  \cup { <<Job(f, o)>> : f \in {MiscFile, ScenarioFile}, o \in OptionSets }
  \cup { <<Job(f1, o1), Job(f2, o2)>> : f1 \in VariantFiles, f2 \in VariantFiles,
                                      o1 \in OptionSets, o2 \in OptionSets }
  \cup { <<Job(UnreadableFile, DefaultOptions), Job(ScenarioFile, DefaultOptions)>>,
         <<Job(ScenarioFile, DefaultOptions), Job(UnreadableFile, DefaultOptions)>>,
         <<Job(ScenarioFile, DefaultOptions), Job(UnreadableFile, DefaultOptions),
           Job(MiscFile, DefaultOptions)>> }

Init ==
  /\ batch \in Batches
  /\ fileIdx = 1
  /\ pc = "idle"
  /\ options = Construct(DefaultOptions)
  /\ project = {}
  /\ declIdx = 1
  /\ entities = <<>>
  /\ relations = EmptyMap
  /\ extracted_entities = EmptyMap
  /\ colProp = Column(s_id, Integer(s_id))
  /\ colRecord = NewColumn(s_id)
  /\ microtasks = <<>>
  /\ colResult = None

Next ==
  \/ BeginFile
  \/ FailFile
  \/ ParseTable
  \/ EndTables
  \/ ParseRelation
  \/ AssociateRelations
  \/ Resolve
  \/ ReturnFile
  \/ Finish

Spec == Init /\ [][Next]_vars

(***************************************************************************)
(* One call of parseColumn, job by job of the microtask queue.  A job runs *)
(* to its end before the next one starts; the queue is first in, first     *)
(* out.                                                                    *)
(***************************************************************************)
\* the queue with the job added, with the job put at its head instead
Enqueue_AtHead(queue, job) == <<job>> \o queue

\* HostEnqueuePromiseJob: the job is added at the end of the queue
Enqueue(queue, job) == Append(queue, job)

Job_parseColumn     == [job |-> "parseColumn"]
Job_parseColumnType == [job |-> "parseColumnType"]
Job_afterType       == [job |-> "afterType"]
Job_afterMethods    == [job |-> "afterMethods"]
Job_then(ref)       == [job |-> "then", ref |-> ref]

NextJobIs(name) == Len(microtasks) > 0 /\ Head(microtasks).job = name

\* parseColumnType has an await when the call has an options map
TypeCallAwaits(callExpr) ==
  Len(callExpr.arguments) > 1 /\ callExpr.arguments[2].kind = "ObjectLiteralExpression"

\* parseColumn up to its first await: lines 263-283.  parseColumnType runs
\* up to its own await, if it has one; parseTypeOptions has none
CallParseColumn ==
  /\ NextJobIs("parseColumn")
  /\ IF \/ Len(colProp.name) = 0
        \/ IsNone(colProp.initializer)
        \/ Get(colProp.initializer).kind # "CallExpression"
       THEN /\ colResult' = Some(None)
            /\ microtasks' = Tail(microtasks)
            /\ UNCHANGED colRecord
       ELSE /\ colRecord' = parseColumnType(Get(colProp.initializer), NewColumn(colProp.name))
            /\ microtasks' =
                 Enqueue(Tail(microtasks),
                         IF TypeCallAwaits(Get(colProp.initializer))
                           THEN Job_parseColumnType ELSE Job_afterType)
            /\ UNCHANGED colResult
  /\ UNCHANGED <<fileVars, options, colProp>>

\* parseColumnType after its await: it returns, which resumes parseColumn
ResumeParseColumnType ==
  /\ NextJobIs("parseColumnType")
  /\ microtasks' = Enqueue(Tail(microtasks), Job_afterType)
  /\ UNCHANGED <<fileVars, options, colProp, colRecord, colResult>>

\* the results of parseReferences, each with its then-callback queued
RECURSIVE EnqueueCallbacks(_, _)
EnqueueCallbacks(queue, refs) ==
  IF Len(refs) = 0 THEN queue
  ELSE EnqueueCallbacks(Enqueue(queue, Job_then(Head(refs))), Tail(refs))

\* parseColumn from line 286 to its second await: parseColumnMethods runs to
\* its end, queueing the callback of every parseReferences it called
CallParseColumnMethods ==
  /\ NextJobIs("afterType")
  /\ LET st == parseColumnMethods(colProp, [column |-> colRecord, jobs |-> <<>>])
     IN  /\ colRecord' = st.column
         /\ microtasks' =
              Enqueue(EnqueueCallbacks(Tail(microtasks), st.jobs), Job_afterMethods)
  /\ UNCHANGED <<fileVars, options, colProp, colResult>>

\* the callback of line 391: if (ref) column.references = ref
RunReferenceCallback ==
  /\ NextJobIs("then")
  /\ colRecord' = AttachReference(colRecord, Head(microtasks).ref)
  /\ microtasks' = Tail(microtasks)
  /\ UNCHANGED <<fileVars, options, colProp, colResult>>

\* parseColumn from line 289 to its return
ReturnColumn ==
  /\ NextJobIs("afterMethods")
  /\ colRecord' = WithColumnComments(colRecord, colProp, options)
  /\ colResult' = Some(Some(WithColumnComments(colRecord, colProp, options)))
  /\ microtasks' = Tail(microtasks)
  /\ UNCHANGED <<fileVars, options, colProp>>

\* references(users.id): an argument that is no arrow function
m_referencesByName ==
  Modifier(s_references, <<PropertyAccess(Identifier(s_users), s_id)>>)

\* the entries of a column map parseColumn is called with: every chain of
\* at most MaxChain modifiers on every type call, an entry with a comment, an
\* entry that is no call and an entry with no name
ColumnProps ==
  { Column(s_email, Chain(typeCall, modifiers)) :
      typeCall \in TypeCalls,
      modifiers \in SeqsUpTo(Modifiers \cup {m_referencesByName}, MaxChain) }
  \cup { PropertyAssignment(s_id,
           Some(Chain(Integer(s_id), <<ReferenceTo(s_users, s_id)>>)), <<c_block>>),
         PropertyAssignment(s_id, Some(StringLiteral(s_a)), <<>>),
         PropertyAssignment(<<>>, Some(Integer(s_id)), <<>>) }

ColumnInit ==
  /\ batch = <<>>
  /\ fileIdx = 1
  /\ pc = "column"
  /\ options \in { Construct(DefaultOptions), Construct([includeComments |-> FALSE]) }
  /\ project = {}
  /\ declIdx = 1
  /\ entities = <<>>
  /\ relations = EmptyMap
  /\ extracted_entities = EmptyMap
  /\ colProp \in ColumnProps
  /\ colRecord = NewColumn(colProp.name)
  /\ microtasks = <<Job_parseColumn>>
  /\ colResult = None

ColumnNext ==
  \/ CallParseColumn
  \/ ResumeParseColumnType
  \/ CallParseColumnMethods
  \/ RunReferenceCallback
  \/ ReturnColumn

ColumnSpec == ColumnInit /\ [][ColumnNext]_vars


(***************************************************************************)
(* What the claims are stated over.                                        *)
(***************************************************************************)
\* every entity a parseFile call has built so far
ResultEntities ==
  Range(entities)
    \cup UNION { Range(extracted_entities[f]) : f \in DOMAIN extracted_entities }

\* the table loop of the current file has ended
TablesParsed == pc \in {"relations", "resolve", "return"}

\* a table declaration of the shape section 4.2 requires
IsWellFormedTable(decl) ==
  /\ IsSome(decl.initializer)
  /\ Get(decl.initializer).kind = "CallExpression"
  /\ Len(Get(decl.initializer).arguments) >= 2
  /\ Get(decl.initializer).arguments[1].kind
       \in {"StringLiteral", "NoSubstitutionTemplateLiteral"}
  /\ Len(Get(decl.initializer).arguments[1].value) > 0
  /\ Get(decl.initializer).arguments[2].kind = "ObjectLiteralExpression"

\* the declarations the entities of the current file come from, in order
SourceTables == SelectSeq(tableDeclarations(CurrentFile), IsWellFormedTable)

\* a column-map entry whose initializer is a call expression
IsCallEntry(prop) ==
  /\ prop.kind = "PropertyAssignment"
  /\ Len(prop.name) > 0
  /\ IsSome(prop.initializer)
  /\ Get(prop.initializer).kind = "CallExpression"

\* the well-formed entries of the column map of a table declaration
CallEntries(decl) ==
  SelectSeq(Get(decl.initializer).arguments[2].properties, IsCallEntry)

\* the modifier m is one of the calls of the builder chain expr
RECURSIVE ChainHasModifier(_, _)
ChainHasModifier(expr, m) ==
  /\ expr.kind = "CallExpression"
  /\ expr.expression.kind = "PropertyAccessExpression"
  /\ \/ expr.expression.name = m /\ expr.expression.expression.kind = "CallExpression"
     \/ ChainHasModifier(expr.expression.expression, m)

\* the names, in column order, of the columns flagged primaryKey
RECURSIVE FlaggedNames(_)
FlaggedNames(columns) ==
  IF Len(columns) = 0 THEN <<>>
  ELSE IF Head(columns).primaryKey
    THEN <<Head(columns).name>> \o FlaggedNames(Tail(columns))
    ELSE FlaggedNames(Tail(columns))

\* C1: the primaryKeys of every entity parseFile builds are the names of its
\* columns flagged primaryKey, in column order, under every set of options
C1_PrimaryKeysAreFlaggedColumns ==
  \A e \in ResultEntities : e.primaryKeys = FlaggedNames(e.columns)

\* C1: an entity with a key column and another column, built with
\* classification, audit detection, comments and relations all disabled
C1_Witness ==
  /\ pc = "return"
  /\ ~options.classifyEntities /\ ~options.detectAuditColumns
  /\ ~options.includeComments /\ ~options.extractRelations
  /\ \E i \in 1..Len(entities) :
       /\ Len(entities[i].primaryKeys) > 0
       /\ Len(entities[i].columns) > Len(entities[i].primaryKeys)

\* C2: a column is not nullable exactly when notNull is one of the
\* modifiers of its builder chain, wherever in the chain it stands
C2_NotNullAnywhereClearsNullable ==
  (TablesParsed /\ Len(entities) = Len(SourceTables)) =>
    \A i \in 1..Len(entities) :
      LET props == CallEntries(SourceTables[i])
          columns == entities[i].columns
      IN  Len(columns) = Len(props) =>
            \A k \in 1..Len(columns) :
              columns[k].nullable =
                ~ChainHasModifier(Get(props[k].initializer), s_notNull)

\* C2: a chain of two modifiers with notNull the inner one has been parsed
C2_Witness ==
  /\ TablesParsed
  /\ Len(entities) = 1
  /\ Len(SourceTables) = 1
  /\ \E k \in 1..Len(CallEntries(SourceTables[1])) :
       LET chain == Get(CallEntries(SourceTables[1])[k].initializer)
       IN  /\ ChainHasModifier(chain, s_notNull)
           /\ chain.expression.name # s_notNull

\* the fields the classifier is specified to read
SameClassifierInput(e1, e2) ==
  /\ e1.name = e2.name
  /\ e1.tableName = e2.tableName
  /\ e1.columns = e2.columns
  /\ e1.primaryKeys = e2.primaryKeys

\* C3: two entities with the same name, tableName, columns and primaryKeys
\* are classified alike, whatever the options of the parser that built them,
\* the files parsed before them and their other fields
C3_ClassifyEntityIsPure ==
  \A e1, e2 \in ResultEntities :
    SameClassifierInput(e1, e2) =>
      /\ classifyEntity(e1) = classifyEntity(e2)
      /\ (IsSome(e1.entityType) /\ IsSome(e2.entityType)) =>
           e1.entityType = e2.entityType

\* C3: the same table has been classified twice, by parsers that differ in
\* their options, with comments that differ
C3_Witness ==
  \E e1, e2 \in ResultEntities :
    /\ SameClassifierInput(e1, e2)
    /\ IsSome(e1.entityType) /\ IsSome(e2.entityType)
    /\ e1.comments # e2.comments
    /\ e1.auditColumns # e2.auditColumns

\* C4: a second run of the resolver over the entities the first run left
\* changes nothing
C4_ResolverIsIdempotent ==
  (pc = "return" /\ options.extractRelations) =>
    resolveManyToManyRelations(entities) = entities

\* C4: the resolver has resolved a relation of an entity that has another
\* many-to-many relation to the same junction table
C4_Witness ==
  /\ pc = "return"
  /\ options.extractRelations
  /\ \E i \in 1..Len(entities) :
       /\ IsSome(entities[i].relations)
       /\ \E k, m \in 1..Len(Get(entities[i].relations)) :
            LET rels == Get(entities[i].relations)
            IN  /\ k # m
                /\ IsSome(rels[k].finalTarget)
                /\ rels[m].type = "many-to-many"
                /\ rels[m].relatedTable = Get(rels[k].junctionTable)

\* an entry of a relation mapping that calls one or many with a target
IsRelationEntry(prop) ==
  /\ prop.kind = "PropertyAssignment"
  /\ Len(prop.name) > 0
  /\ IsSome(prop.initializer)
  /\ Get(prop.initializer).kind = "CallExpression"
  /\ Get(prop.initializer).expression \in {Identifier(s_one), Identifier(s_many)}
  /\ Len(Get(prop.initializer).arguments) > 0

\* the entries of the mapping a relation declaration returns, in order
RelationEntriesOf(decl) ==
  LET args == Get(decl.initializer).arguments
  IN  IF /\ Len(args) >= 2
         /\ args[2].kind \in {"ArrowFunction", "FunctionExpression"}
         /\ IsSome(RelationsObject(args[2]))
        THEN SelectSeq(Get(RelationsObject(args[2])).properties, IsRelationEntry)
        ELSE <<>>

HelperOf(prop) == Get(prop.initializer).expression.text

\* the configuration object of the entry gives key an array
ConfigHasArray(prop, key) ==
  LET args == Get(prop.initializer).arguments
  IN  /\ Len(args) > 1
      /\ args[2].kind = "ObjectLiteralExpression"
      /\ \E i \in 1..Len(args[2].properties) :
           /\ args[2].properties[i].kind = "PropertyAssignment"
           /\ args[2].properties[i].name = key
           /\ IsSome(args[2].properties[i].initializer)
           /\ Get(args[2].properties[i].initializer).kind = "ArrayLiteralExpression"

\* the relation key or the name of the related table contains "to"
HasJunctionMarker(prop) ==
  \/ includes(toLowerCase(prop.name), s_to)
  \/ includes(toLowerCase(Get(extractTableReference(Get(prop.initializer).arguments[1]))),
              s_to)

\* the pairs of an entity and the relation declaration its relations come
\* from, entry for entry
ParsedRelationPairs ==
  { pair \in (1..Len(entities)) \X (1..Len(relationDeclarations(CurrentFile))) :
      LET e == entities[pair[1]]
          decl == relationDeclarations(CurrentFile)[pair[2]]
      IN  /\ IsSome(e.relations)
          /\ getTableNameFromRelationDeclaration(decl) = Some(e.name)
          /\ Len(RelationEntriesOf(decl)) = Len(Get(e.relations)) }

EntriesOfPair(pair) == RelationEntriesOf(relationDeclarations(CurrentFile)[pair[2]])
RelationsOfPair(pair) == Get(entities[pair[1]].relations)

\* C5: an entry that calls one with both fields and references, with no
\* junction marker in its key or its target, is emitted as many-to-one
C5_OneWithFieldsAndReferencesIsManyToOne ==
  (pc = "return" /\ options.extractRelations) =>
    \A pair \in ParsedRelationPairs :
      \A k \in 1..Len(EntriesOfPair(pair)) :
        LET prop == EntriesOfPair(pair)[k]
            relation == RelationsOfPair(pair)[k]
        IN  (/\ HelperOf(prop) = s_one
             /\ ConfigHasArray(prop, s_fields)
             /\ ConfigHasArray(prop, s_references)
             /\ ~HasJunctionMarker(prop)) =>
              /\ relation.name = prop.name
              /\ relation.type = "many-to-one"

\* C6: with no junction marker and no reclassification as many-to-one, an
\* entry that calls many is emitted as one-to-many and an entry that calls
\* one is emitted as one-to-one
C6_TentativeTypeIsKept ==
  (pc = "return" /\ options.extractRelations) =>
    \A pair \in ParsedRelationPairs :
      \A k \in 1..Len(EntriesOfPair(pair)) :
        LET prop == EntriesOfPair(pair)[k]
            relation == RelationsOfPair(pair)[k]
        IN  ~HasJunctionMarker(prop) =>
              /\ HelperOf(prop) = s_many => relation.type = "one-to-many"
              /\ (/\ HelperOf(prop) = s_one
                  /\ ~(ConfigHasArray(prop, s_fields) /\ ConfigHasArray(prop, s_references)))
                   => relation.type = "one-to-one"

\* the entities of Scenario B: posts, tags, and postsToTags with two columns
\* that reference posts.id and tags.id and no primary key
IsScenarioB(ents) ==
  /\ \E i \in 1..Len(ents) : ents[i].name = s_posts
  /\ \E i \in 1..Len(ents) : ents[i].name = s_tags
  /\ \E i \in 1..Len(ents) :
       /\ ents[i].name = s_postsToTags
       /\ Len(ents[i].columns) = 2
       /\ Len(ents[i].primaryKeys) = 0
       /\ { ents[i].columns[1].references, ents[i].columns[2].references }
            = { Some([table |-> s_posts, column |-> s_id]),
                Some([table |-> s_tags, column |-> s_id]) }

OtherOf(table) == IF table = s_posts THEN s_tags ELSE s_posts

\* C7: in Scenario B postsToTags is classified as the junction type and,
\* when parseFile returns, every many-to-many relation of posts or tags to
\* postsToTags names postsToTags as its junction table and the other of the
\* two tables as its final target
C7_EveryJunctionRelationIsResolved ==
  (pc = "return" /\ options = Construct(DefaultOptions) /\ IsScenarioB(entities)) =>
    \A i \in 1..Len(entities) :
      /\ entities[i].name = s_postsToTags =>
           entities[i].entityType = Some("transactional-many-to-many")
      /\ (entities[i].name \in {s_posts, s_tags} /\ IsSome(entities[i].relations)) =>
           \A k \in 1..Len(Get(entities[i].relations)) :
             LET relation == Get(entities[i].relations)[k]
             IN  (relation.type = "many-to-many" /\ relation.relatedTable = s_postsToTags) =>
                   /\ relation.junctionTable = Some(s_postsToTags)
                   /\ relation.finalTarget = Some(OtherOf(entities[i].name))

PropertyName(prop) == prop.name

\* C8: every well-formed table yields an entity, whose columns are the
\* entries of its column map that are calls, in source order
C8_MalformedEntriesAreOmitted ==
  TablesParsed =>
    /\ Len(entities) = Len(SourceTables)
    /\ \A i \in 1..Len(entities) :
         Map(entities[i].columns, ColumnName)
           = Map(CallEntries(SourceTables[i]), PropertyName)

\* C8: a table whose column map starts with an entry that is no call,
\* followed by a well-formed entry, has been parsed
C8_Witness ==
  /\ TablesParsed
  /\ \E i \in 1..Len(SourceTables) :
       LET properties == Get(SourceTables[i].initializer).arguments[2].properties
       IN  /\ Len(properties) >= 2
           /\ ~IsCallEntry(properties[1])
           /\ IsCallEntry(properties[2])
           /\ i <= Len(entities)
           /\ Len(entities[i].columns) >= 1

\* the sequences hold the same elements the same number of times
IsPermutation(s1, s2) ==
  /\ Len(s1) = Len(s2)
  /\ \A x \in Range(s1) \cup Range(s2) :
       Cardinality({ i \in 1..Len(s1) : s1[i] = x })
         = Cardinality({ i \in 1..Len(s2) : s2[i] = x })

\* C9: two entities of the same name and tableName whose columns are a
\* permutation of each other are classified alike
C9_ClassificationIgnoresColumnOrder ==
  \A e1, e2 \in ResultEntities :
    (/\ e1.name = e2.name
     /\ e1.tableName = e2.tableName
     /\ IsPermutation(e1.columns, e2.columns)) =>
      /\ classifyEntity(e1) = classifyEntity(e2)
      /\ (IsSome(e1.entityType) /\ IsSome(e2.entityType)) =>
           e1.entityType = e2.entityType

\* C9: the same table has been classified with its columns in two orders
C9_Witness ==
  \E e1, e2 \in ResultEntities :
    /\ e1.name = e2.name
    /\ e1.tableName = e2.tableName
    /\ IsPermutation(e1.columns, e2.columns)
    /\ e1.columns # e2.columns
    /\ IsSome(e1.entityType) /\ IsSome(e2.entityType)
    /\ Len(e1.primaryKeys) > 0

\* C10: no entity with a primary-key column carries the junction type
C10_KeyedEntityIsNoJunction ==
  \A e \in ResultEntities :
    Len(e.primaryKeys) > 0 => e.entityType # Some("transactional-many-to-many")

\* the junction rule of the classification, read from an entity
JunctionRule(e) ==
  /\ \/ includes(toLowerCase(e.name), s_to)
     \/ includes(toLowerCase(e.tableName), s_to)
     \/ Cardinality({ i \in 1..Len(e.columns) :
                        /\ endsWith(toLowerCase(e.columns[i].name), s_id)
                        /\ toLowerCase(e.columns[i].name) # s_id }) >= 2
  /\ Len(e.columns) <= 6
  /\ Len(e.primaryKeys) = 0

AssociationRule(e) ==
  Cardinality({ i \in 1..Len(e.columns) : IsSome(e.columns[i].references) }) >= 2

AuditRule(e) ==
  \E w \in {s_log, s_audit, s_history} : includes(toLowerCase(e.name), w)

ReferenceRule(e) ==
  \/ /\ Len(e.columns) <= 4
     /\ \E i \in 1..Len(e.columns), w \in {s_name, s_title} :
          includes(e.columns[i].name, w)
  \/ \E w \in {s_type, s_status, s_category} : includes(toLowerCase(e.name), w)

\* the rules after the junction rule, the first that matches deciding
DecisionList(e) ==
  IF AssociationRule(e) THEN "association"
  ELSE IF AuditRule(e) THEN "audit"
  ELSE IF ReferenceRule(e) THEN "reference"
  ELSE "transactional"

\* the entity as parseTableDeclaration passes it to classifyEntity
AsClassified(e) == [e EXCEPT !.primaryKeys = <<>>]

\* C11: for an entity the junction rule does not match, classifyEntity
\* returns association, else audit, else reference, else transactional, by
\* the first rule that matches; this holds of the entity type recorded for
\* every entity that was passed to classifyEntity with the junction rule
\* unmatched
C11_FirstMatchingRuleWins ==
  \A e \in ResultEntities :
    /\ ~JunctionRule(e) => classifyEntity(e) = DecisionList(e)
    /\ (IsSome(e.entityType) /\ ~JunctionRule(AsClassified(e))) =>
         e.entityType = Some(DecisionList(e))

\* C11: an entity that matches the association, audit and reference rules,
\* and not the junction rule, has been classified
C11_Witness ==
  \E e \in ResultEntities :
    /\ ~JunctionRule(AsClassified(e))
    /\ AssociationRule(e) /\ AuditRule(e) /\ ReferenceRule(e)
    /\ e.entityType = Some("association")

\* a call of a method on the result of a call: a modifier of a builder chain
IsModifierCall(expr) ==
  /\ expr.kind = "CallExpression"
  /\ expr.expression.kind = "PropertyAccessExpression"
  /\ expr.expression.expression.kind = "CallExpression"

\* the innermost call of a builder chain: the call that constructs the type
RECURSIVE TypeCallOf(_)
TypeCallOf(expr) ==
  IF IsModifierCall(expr) THEN TypeCallOf(expr.expression.expression) ELSE expr

\* the modifiers of a builder chain, the innermost first
RECURSIVE ModifiersOf(_)
ModifiersOf(expr) ==
  IF IsModifierCall(expr)
    THEN Append(ModifiersOf(expr.expression.expression),
                Modifier(expr.expression.name, expr.arguments))
    ELSE <<>>

\* the name of the callee of a call: an identifier or a member access
CalleeName(call) ==
  IF call.expression.kind = "Identifier" THEN call.expression.text
  ELSE call.expression.name

\* the pairs of a parsed column and the entry of the column map it comes from
ParsedColumnPairs ==
  IF TablesParsed /\ Len(entities) = Len(SourceTables)
    THEN UNION { { <<i, k>> : k \in 1..Len(entities[i].columns) } :
                   i \in { j \in 1..Len(entities) :
                             Len(entities[j].columns)
                               = Len(CallEntries(SourceTables[j])) } }
    ELSE {}

ColumnOfPair(pair) == entities[pair[1]].columns[pair[2]]
ChainOfPair(pair) == Get(CallEntries(SourceTables[pair[1]])[pair[2]].initializer)

\* C12: the type of a parsed column is the callee name of the innermost call
\* of its builder chain, whatever modifiers wrap that call
C12_TypeIsInnermostCallee ==
  \A pair \in ParsedColumnPairs :
    ColumnOfPair(pair).type = CalleeName(TypeCallOf(ChainOfPair(pair)))

\* the value the options map of a type call gives key, if it is a number
OptionNumber(typeCall, key) ==
  LET args == typeCall.arguments
      Given(prop) == /\ prop.kind = "PropertyAssignment"
                     /\ prop.name = key
                     /\ IsSome(prop.initializer)
                     /\ Get(prop.initializer).kind = "NumericLiteral"
  IN  IF Len(args) >= 2 /\ args[2].kind = "ObjectLiteralExpression"
         /\ \E i \in 1..Len(args[2].properties) : Given(args[2].properties[i])
        THEN LET given == SelectSeq(args[2].properties, Given)
             IN  Some(Get(given[Len(given)].initializer).value)
        ELSE None

\* the string literals the options map of a type call lists under enum
OptionEnum(typeCall) ==
  LET args == typeCall.arguments
      Given(prop) == /\ prop.kind = "PropertyAssignment"
                     /\ prop.name = s_enum
                     /\ IsSome(prop.initializer)
                     /\ Get(prop.initializer).kind = "ArrayLiteralExpression"
      IsString(el) == el.kind = "StringLiteral"
      Value(el) == el.value
  IN  IF Len(args) >= 2 /\ args[2].kind = "ObjectLiteralExpression"
         /\ \E i \in 1..Len(args[2].properties) : Given(args[2].properties[i])
        THEN LET given == SelectSeq(args[2].properties, Given)
             IN  Some(Map(SelectSeq(Get(given[Len(given)].initializer).elements,
                                    IsString), Value))
        ELSE None

\* C13: the length, precision, scale and enumValues of a parsed column are
\* those of the options map of its type call, whatever modifiers wrap it
C13_TypeOptionsArePopulated ==
  \A pair \in ParsedColumnPairs :
    LET column == ColumnOfPair(pair)
        typeCall == TypeCallOf(ChainOfPair(pair))
    IN  /\ column.length = OptionNumber(typeCall, s_length)
        /\ column.precision = OptionNumber(typeCall, s_precision)
        /\ column.scale = OptionNumber(typeCall, s_scale)
        /\ column.enumValues = OptionEnum(typeCall)

\* C13: a column whose type call has an options map and no modifier has
\* been parsed with the options populated
C13_Witness ==
  \E pair \in ParsedColumnPairs :
    /\ ~IsModifierCall(ChainOfPair(pair))
    /\ \/ IsSome(ColumnOfPair(pair).precision) /\ IsSome(ColumnOfPair(pair).scale)
       \/ IsSome(ColumnOfPair(pair).enumValues)

\* every entity the command has recorded, with the position of its file
RecordedEntities ==
  UNION { { [file |-> f, entity |-> extracted_entities[f][i]] :
              i \in 1..Len(extracted_entities[f]) } :
          f \in DOMAIN extracted_entities }

\* the tables the columns of an entity reference
ReferencedTables(e) ==
  { Get(e.columns[i].references).table :
      i \in { k \in 1..Len(e.columns) : IsSome(e.columns[k].references) } }

\* C14: when the batch completes, a many-to-many relation that points at a
\* junction entity of another document of the batch, which references the
\* relation's entity and another table, has its junction table and its
\* final target set
C14_ResolverSeesEveryDocument ==
  pc = "done" =>
    \A owner \in RecordedEntities, junction \in RecordedEntities :
      (/\ owner.file # junction.file
       /\ junction.entity.entityType = Some("transactional-many-to-many")
       /\ Cardinality(ReferencedTables(junction.entity)) >= 2
       /\ owner.entity.name \in ReferencedTables(junction.entity)
       /\ IsSome(owner.entity.relations)) =>
        \A k \in 1..Len(Get(owner.entity.relations)) :
          LET relation == Get(owner.entity.relations)[k]
          IN  (/\ relation.type = "many-to-many"
               /\ relation.relatedTable = junction.entity.name) =>
                /\ relation.junctionTable = Some(junction.entity.name)
                /\ IsSome(relation.finalTarget)

\* the entities of the table declarations of a file, in order
TableEntities(file, opts) ==
  LET step(ents, decl) ==
        IF IsSome(parseTableDeclaration(decl, opts))
          THEN Append(ents, Get(parseTableDeclaration(decl, opts)))
          ELSE ents
  IN  FoldLeft(step, <<>>, tableDeclarations(file))

\* the relations of the relation declarations of a file, by table name
DeclaredRelations(file) ==
  LET step(rels, decl) ==
        IF /\ IsSome(parseRelationDeclaration(decl))
           /\ IsSome(getTableNameFromRelationDeclaration(decl))
          THEN MapSet(rels, Get(getTableNameFromRelationDeclaration(decl)),
                      Get(parseRelationDeclaration(decl)))
          ELSE rels
  IN  FoldLeft(step, EmptyMap, relationDeclarations(file))

\* what parseFile returns for the file of a job parsed on its own
FileResult(job) ==
  IF Construct(job.options).extractRelations
    THEN resolveManyToManyRelations(
           associateRelations(TableEntities(job.file, Construct(job.options)),
                              DeclaredRelations(job.file)))
    ELSE TableEntities(job.file, Construct(job.options))

\* C15: a file that cannot be read is recorded with no entities, and every
\* file the loop has passed, before or after it, is recorded with the
\* entities parseFile returns for it; the loop ends past the last file
C15_UnreadableFileIsSkipped ==
  /\ pc = "done" => fileIdx = Len(batch) + 1
  /\ \A i \in 1..Len(batch) :
       i < fileIdx =>
         IF batch[i].file.readable /\ Len(FileResult(batch[i])) > 0
           THEN /\ i \in DOMAIN extracted_entities
                /\ extracted_entities[i] = FileResult(batch[i])
           ELSE i \notin DOMAIN extracted_entities

\* C15: the batch has completed with a file that cannot be read between two
\* files whose entities are recorded
C15_Witness ==
  /\ pc = "done"
  /\ \E i, j, k \in 1..Len(batch) :
       /\ i < j /\ j < k
       /\ ~batch[j].file.readable
       /\ i \in DOMAIN extracted_entities
       /\ k \in DOMAIN extracted_entities

\* C16: once the table loop of a file has ended, its entities are those of
\* the well-formed exported table declarations, one each and in source
\* order, each as parseTableDeclaration builds it from its declaration alone
C16_EntitiesAreTheWellFormedTables ==
  TablesParsed =>
    /\ Len(entities) = Len(SourceTables)
    /\ \A i \in 1..Len(SourceTables) :
         /\ i <= Len(entities)
         /\ entities[i].name = SourceTables[i].name
         /\ entities[i].tableName = Get(SourceTables[i].initializer).arguments[1].value
         /\ entities[i].columns =
              Get(parseTableDeclaration(SourceTables[i], options)).columns

\* C16: the table loop has ended on a file with a malformed table
\* declaration between two well-formed ones, and both have their entity
C16_Witness ==
  /\ TablesParsed
  /\ Len(entities) >= 2
  /\ \E i, j, k \in 1..Len(tableDeclarations(CurrentFile)) :
       /\ i < j /\ j < k
       /\ IsWellFormedTable(tableDeclarations(CurrentFile)[i])
       /\ ~IsWellFormedTable(tableDeclarations(CurrentFile)[j])
       /\ IsWellFormedTable(tableDeclarations(CurrentFile)[k])
       /\ entities[1].name = tableDeclarations(CurrentFile)[i].name
       /\ entities[Len(entities)].name = tableDeclarations(CurrentFile)[k].name

\* the fields of an entity that only parseTableDeclaration writes
SameTableFields(e1, e2) ==
  /\ e1.name = e2.name
  /\ e1.tableName = e2.tableName
  /\ e1.columns = e2.columns
  /\ e1.primaryKeys = e2.primaryKeys
  /\ e1.entityType = e2.entityType
  /\ e1.auditColumns = e2.auditColumns

\* the fields of a relation that only the relation parser writes
SameParsedRelation(r1, r2) ==
  /\ r1.name = r2.name
  /\ r1.type = r2.type
  /\ r1.relatedTable = r2.relatedTable
  /\ r1.fields = r2.fields
  /\ r1.references = r2.references
  /\ r1.relationName = r2.relationName
  /\ r1.isSelfReferencing = r2.isSelfReferencing

SameParsedRelations(e1, e2) ==
  /\ IsSome(e1.relations) = IsSome(e2.relations)
  /\ IsSome(e1.relations) /\ IsSome(e2.relations) =>
       /\ Len(Get(e1.relations)) = Len(Get(e2.relations))
       /\ \A k \in 1..Len(Get(e1.relations)) :
            k <= Len(Get(e2.relations)) =>
              SameParsedRelation(Get(e1.relations)[k], Get(e2.relations)[k])

\* what a step of the relation phases keeps of the entities
RelationPhaseFrame ==
  /\ Len(entities') = Len(entities)
  /\ \A i \in 1..Len(entities) :
       i <= Len(entities') =>
         /\ SameTableFields(entities[i], entities'[i])
         /\ pc = "resolve" => SameParsedRelations(entities[i], entities'[i])

\* C17: a step of the relation loop, of the association loop or of the
\* resolver keeps every entity with its name, tableName, columns,
\* primaryKeys, entityType and auditColumns, and a step of the resolver keeps
\* every relation with every field but finalTarget and junctionTable
C17_RelationPhasesKeepTableFields ==
  [][ (pc \in {"relations", "resolve"}) => RelationPhaseFrame ]_vars

\* C17: the resolver has written the final target of a relation of an entity
\* that has a primary key, an entity type and audit columns
C17_Witness ==
  /\ pc = "return"
  /\ \E i \in 1..Len(entities) :
       /\ Len(entities[i].primaryKeys) > 0
       /\ IsSome(entities[i].entityType)
       /\ IsSome(entities[i].auditColumns)
       /\ IsSome(entities[i].relations)
       /\ \E k \in 1..Len(Get(entities[i].relations)) :
            /\ IsSome(Get(entities[i].relations)[k].finalTarget)
            /\ Get(entities[i].relations)[k].relatedTable
                 # Get(Get(entities[i].relations)[k].finalTarget)

\* the orderings of a sequence of distinct elements
Orderings(seq) ==
  { p \in InjectiveSeqsUpTo(Range(seq), Len(seq)) : Len(p) = Len(seq) }

HasDistinctModifiers(chain) ==
  \A i, j \in 1..Len(ModifiersOf(chain)) :
    ModifiersOf(chain)[i] = ModifiersOf(chain)[j] => i = j

\* the entry of the column map with the modifiers of its chain reordered
Reordered(prop, modifiers) ==
  [prop EXCEPT !.initializer =
     Some(Chain(TypeCallOf(Get(prop.initializer)), modifiers))]

\* C18: a column parsed from a chain of distinct modifiers is the column
\* parseColumn returns for every other ordering of the same modifiers
C18_ModifierOrderIsIrrelevant ==
  \A pair \in ParsedColumnPairs :
    HasDistinctModifiers(ChainOfPair(pair)) =>
      \A modifiers \in Orderings(ModifiersOf(ChainOfPair(pair))) :
        parseColumn(Reordered(CallEntries(SourceTables[pair[1]])[pair[2]], modifiers),
                    options)
          = Some(ColumnOfPair(pair))

\* a modifier that gives the column a default value
IsValueCarrying(m) ==
  \/ m.name = s_default /\ Len(m.arguments) > 0
  \/ m.name = s_defaultNow

\* the default value a value-carrying modifier gives
ValueOf(m) ==
  IF m.name = s_defaultNow THEN Some(s_NOW) ELSE extractValue(m.arguments[1])

\* the positions in a chain of its value-carrying modifiers
ValuePositions(chain) ==
  { i \in 1..Len(ModifiersOf(chain)) : IsValueCarrying(ModifiersOf(chain)[i]) }

\* the greatest number of a non-empty finite set of numbers
Greatest(S) == CHOOSE x \in S : \A y \in S : y <= x

\* C19: a column whose chain holds two or more value-carrying modifiers has
\* the default value of the one that comes last in the chain
C19_LaterDefaultWins ==
  \A pair \in ParsedColumnPairs :
    Cardinality(ValuePositions(ChainOfPair(pair))) >= 2 =>
      ColumnOfPair(pair).defaultValue
        = ValueOf(ModifiersOf(ChainOfPair(pair))[Greatest(ValuePositions(ChainOfPair(pair)))])

\* the resolver has written a field of the relation
IsResolved(relation) == IsSome(relation.finalTarget) \/ IsSome(relation.junctionTable)

\* entity k is a junction table with two or more related tables, owner is
\* one of them, and the relation points at it
ResolvableThrough(k, owner, relation) ==
  /\ entities[k].name = relation.relatedTable
  /\ IsJunctionEntity(entities[k])
  /\ Len(RelatedTables(entities, entities[k])) >= 2
  /\ owner.name \in Range(RelatedTables(entities, entities[k]))

\* C20: a relation with finalTarget or junctionTable set is a many-to-many
\* relation to a junction table of the file with two or more related
\* tables, one of them the entity that owns the relation
C20_OnlyJunctionRelationsAreResolved ==
  TablesParsed =>
    \A i \in 1..Len(entities) :
      IsSome(entities[i].relations) =>
        \A r \in 1..Len(Get(entities[i].relations)) :
          IsResolved(Get(entities[i].relations)[r]) =>
            /\ Get(entities[i].relations)[r].type = "many-to-many"
            /\ \E k \in 1..Len(entities) :
                 ResolvableThrough(k, entities[i], Get(entities[i].relations)[r])

\* C20: the resolver has run over a file where one entity has a resolved
\* relation to a junction table and another, not among the related tables of
\* that junction table, has a many-to-many relation to it left unresolved
C20_Witness ==
  /\ pc = "return"
  /\ \E i, j, k \in 1..Len(entities) :
       /\ IsSome(entities[i].relations) /\ IsSome(entities[j].relations)
       /\ IsJunctionEntity(entities[k])
       /\ entities[j].name \notin Range(RelatedTables(entities, entities[k]))
       /\ \E r \in 1..Len(Get(entities[i].relations)) :
            Get(entities[i].relations)[r].junctionTable = Some(entities[k].name)
       /\ \E r \in 1..Len(Get(entities[j].relations)) :
            /\ Get(entities[j].relations)[r].type = "many-to-many"
            /\ Get(entities[j].relations)[r].relatedTable = entities[k].name
            /\ ~IsResolved(Get(entities[j].relations)[r])

\* the relation points at the junction table of that name
PointsAt(relation, junctionName) ==
  relation.relatedTable = junctionName /\ relation.type = "many-to-many"

\* the positions of the relations of an entity that point at the junction
JunctionRelations(owner, junctionName) ==
  IF IsSome(owner.relations)
    THEN { r \in 1..Len(Get(owner.relations)) :
             PointsAt(Get(owner.relations)[r], junctionName) }
    ELSE {}

\* the least number of a non-empty finite set of numbers
Least(S) == CHOOSE x \in S : \A y \in S : x <= y

\* the positions in the related tables of the tables other than name
OtherTables(relatedTables, name) ==
  { t \in 1..Len(relatedTables) : relatedTables[t] # name }

\* the relation of owner that the resolver looks up for the junction table
\* has the first related table other than owner as its final target
HasFirstOtherTable(owner, junctionName, relatedTables) ==
  (JunctionRelations(owner, junctionName) # {}
   /\ OtherTables(relatedTables, owner.name) # {}) =>
    LET relation == Get(owner.relations)[Least(JunctionRelations(owner, junctionName))]
    IN  /\ relation.finalTarget
             = Some(relatedTables[Least(OtherTables(relatedTables, owner.name))])
        /\ relation.junctionTable = Some(junctionName)

\* C21: once the resolver has run, for each junction table with two or more
\* related tables, the first many-to-many relation to it of each related
\* entity has the first related table of another name as finalTarget and the
\* name of the junction table as junctionTable
C21_FinalTargetIsFirstOtherTable ==
  pc = "return" /\ options.extractRelations =>
    \A k, i \in 1..Len(entities) :
      (/\ IsJunctionEntity(entities[k])
       /\ Len(RelatedTables(entities, entities[k])) >= 2
       /\ entities[i].name \in Range(RelatedTables(entities, entities[k]))) =>
        HasFirstOtherTable(entities[i], entities[k].name,
                           RelatedTables(entities, entities[k]))

\* C21: the resolver has run over a junction table of three related tables
\* of different names, and the relation of the third has the first as its
\* final target
C21_Witness ==
  /\ pc = "return"
  /\ \E k, i \in 1..Len(entities) :
       /\ IsJunctionEntity(entities[k])
       /\ Len(RelatedTables(entities, entities[k])) = 3
       /\ Cardinality(Range(RelatedTables(entities, entities[k]))) = 3
       /\ entities[i].name = RelatedTables(entities, entities[k])[3]
       /\ IsSome(entities[i].relations)
       /\ \E r \in 1..Len(Get(entities[i].relations)) :
            /\ Get(entities[i].relations)[r].finalTarget
                 = Some(RelatedTables(entities, entities[k])[1])
            /\ Get(entities[i].relations)[r].junctionTable = Some(entities[k].name)

\* the name with its last letter y turned into ies, or with an s appended
Pluralized(name) ==
  IF endsWith(name, s_y) THEN SubSeq(name, 1, Len(name) - 1) \o s_ies
  ELSE name \o s_s

\* the table name section 4.6 derives from an id column: the name without
\* its two last characters, pluralized
DerivedTableName(col) == Pluralized(SubSeq(col.name, 1, Len(col.name) - 2))

\* the derived names of the id columns of a junction table that name an
\* entity of the set, in column order
AcceptedTableNames(ents, junctionTable) ==
  LET Accepted(name) == MapHas(ents, name)
  IN  SelectSeq(Map(SelectSeq(junctionTable.columns, IsIdColumn), DerivedTableName),
                Accepted)

\* C22: the related tables of a junction table with fewer than two
\* reference columns are the table names derived from its id columns, each
\* accepted exactly when an entity of the file has that name
C22_InferredTablesAreDerivedNames ==
  TablesParsed =>
    \A k \in 1..Len(entities) :
      (/\ IsJunctionEntity(entities[k])
       /\ Len(SelectSeq(entities[k].columns, HasReferences)) < 2) =>
        RelatedTables(entities, entities[k]) = AcceptedTableNames(entities, entities[k])

AuditRoles == {"createdAt", "updatedAt", "deletedAt", "version"}

\* the rule of section 4.4 for a role, on a column name
SatisfiesRole(role, columnName) ==
  LET name == toLowerCase(columnName)
  IN  CASE role = "createdAt" -> includes(name, s_created) /\ includes(name, s_at)
        [] role = "updatedAt" -> includes(name, s_updated) /\ includes(name, s_at)
        [] role = "deletedAt" -> includes(name, s_deleted) /\ includes(name, s_at)
        [] role = "version" -> name = s_version \/ name = s__version

\* the positions of the columns whose name satisfies the rule of the role
RolePositions(columns, role) ==
  { i \in 1..Len(columns) : SatisfiesRole(role, columns[i].name) }

\* the name of the last column that satisfies the rule of the role
LastOfRole(columns, role) ==
  IF RolePositions(columns, role) = {} THEN None
  ELSE Some(columns[Greatest(RolePositions(columns, role))].name)

\* C23: the audit columns of an entity hold, for each role, the name of the
\* last column that satisfies the rule of the role, and nothing when no
\* column does, whatever other roles the column satisfies
C23_AuditRoleIsLastMatch ==
  \A e \in ResultEntities :
    IsSome(e.auditColumns) =>
      \A role \in AuditRoles :
        Get(e.auditColumns)[role] = LastOfRole(e.columns, role)

\* the relation declarations of the current file that are named after the
\* table and yield relations, by position
DeclarationsFor(tableName) ==
  { d \in 1..Len(relationDeclarations(CurrentFile)) :
      /\ relationDeclarations(CurrentFile)[d].name = tableName \o s_Relations
      /\ IsSome(parseRelationDeclaration(relationDeclarations(CurrentFile)[d])) }

\* C24: when the relations have been associated, an entity has the relations
\* of the relation declaration named by its identifier followed by
\* Relations, and an entity with no such declaration has none
C24_RelationsGoToTheNamedEntity ==
  pc = "resolve" =>
    \A i \in 1..Len(entities) :
      entities[i].relations =
        IF DeclarationsFor(entities[i].name) = {} THEN None
        ELSE parseRelationDeclaration(
               relationDeclarations(CurrentFile)[Greatest(DeclarationsFor(entities[i].name))])

\* C24: the relations have been associated in a file where a declaration
\* without the suffix yields relations and a declaration named after one
\* table is given another table
C24_Witness ==
  /\ pc = "resolve"
  /\ \E d \in 1..Len(relationDeclarations(CurrentFile)) :
       /\ ~endsWith(relationDeclarations(CurrentFile)[d].name, s_Relations)
       /\ IsSome(parseRelationDeclaration(relationDeclarations(CurrentFile)[d]))
  /\ \E i \in 1..Len(entities), d \in 1..Len(relationDeclarations(CurrentFile)) :
       /\ d \in DeclarationsFor(entities[i].name)
       /\ getText(Get(relationDeclarations(CurrentFile)[d].initializer).arguments[1])
            # entities[i].name
       /\ IsSome(entities[i].relations)

\* the relation name holds one of the words, in any case
NamesItself(relationName) ==
  \/ includes(toLowerCase(relationName), s_self)
  \/ includes(toLowerCase(relationName), s_parent)
  \/ includes(toLowerCase(relationName), s_child)

\* C25: a relation is marked self-referencing exactly when it has a
\* relationName that holds self, parent or child in any case; the table it
\* relates to plays no part
C25_SelfReferencingFollowsRelationName ==
  \A e \in ResultEntities :
    IsSome(e.relations) =>
      \A r \in 1..Len(Get(e.relations)) :
        Get(e.relations)[r].isSelfReferencing
          = (/\ IsSome(Get(e.relations)[r].relationName)
             /\ NamesItself(Get(Get(e.relations)[r].relationName)))

\* C25: an entity has a relation to itself with no relationName, not marked,
\* and a relation marked for a relationName written with upper-case letters
C25_Witness ==
  \E e \in ResultEntities :
    /\ IsSome(e.relations)
    /\ \E r, q \in 1..Len(Get(e.relations)) :
         /\ Get(e.relations)[r].relatedTable = e.name
         /\ IsNone(Get(e.relations)[r].relationName)
         /\ ~Get(e.relations)[r].isSelfReferencing
         /\ Get(e.relations)[q].isSelfReferencing
         /\ IsSome(Get(e.relations)[q].relationName)
         /\ toLowerCase(Get(Get(e.relations)[q].relationName))
              # Get(Get(e.relations)[q].relationName)

\* C26: the comments of a column are never the empty string: they are
\* undefined when the comment ranges before the column hold no text
C26_NoCommentTextIsUndefined ==
  \A e \in ResultEntities :
    \A k \in 1..Len(e.columns) :
      e.columns[k].comments # Some(<<>>)

\* C26: a column with a comment range before it that holds no text
C26_Witness ==
  /\ TablesParsed
  /\ options.includeComments
  /\ \E i \in 1..Len(SourceTables) :
       \E prop \in Range(CallEntries(SourceTables[i])) :
         /\ Len(prop.leadingComments) > 0
         /\ \A c \in 1..Len(prop.leadingComments) :
              NormalizeComment(prop.leadingComments[c]) = <<>>
         /\ \E e \in Range(entities) : \E k \in 1..Len(e.columns) :
              e.columns[k].name = prop.name

\* the trimmed lines of a comment range
TrimmedLines(text) == Map(CommentLines(text), trim)

\* the positions where a run of non-blank lines starts
RunStarts(lines) ==
  { i \in 1..Len(lines) : lines[i] # <<>> /\ (i = 1 \/ lines[i - 1] = <<>>) }

\* the position where the run of non-blank lines that starts at i ends
RunEnd(lines, i) ==
  CHOOSE j \in i..Len(lines) :
    /\ \A k \in i..j : lines[k] # <<>>
    /\ (j = Len(lines) \/ lines[j + 1] = <<>>)

\* the numbers of a finite set in increasing order
RECURSIVE Ascending(_)
Ascending(S) == IF S = {} THEN <<>> ELSE <<Least(S)>> \o Ascending(S \ {Least(S)})

\* the paragraphs of the lines: each maximal run joined by single spaces
ParagraphsOf(lines) ==
  [ p \in 1..Cardinality(RunStarts(lines)) |->
      join(SubSeq(lines, Ascending(RunStarts(lines))[p],
                  RunEnd(lines, Ascending(RunStarts(lines))[p])),
           <<" ">>) ]

\* the text has no empty line and no line break at either end
HasNoEmptyLine(text) ==
  /\ Len(text) > 0 => text[1] # "\n" /\ text[Len(text)] # "\n"
  /\ \A i \in 1..(Len(text) - 1) : ~(text[i] = "\n" /\ text[i + 1] = "\n")

\* the entry of the column map a parsed column comes from
EntryOfPair(pair) == CallEntries(SourceTables[pair[1]])[pair[2]]

\* C27: the comments of a column with one comment range before it are the
\* paragraphs of the range joined by single line breaks, a paragraph being
\* a maximal run of non-blank trimmed lines joined by single spaces; the
\* text has no empty line and no line break at either end
C27_BlockIsItsParagraphs ==
  \A pair \in ParsedColumnPairs :
    (options.includeComments /\ Len(EntryOfPair(pair).leadingComments) = 1) =>
      /\ ColumnOfPair(pair).comments
           = Some(join(ParagraphsOf(TrimmedLines(EntryOfPair(pair).leadingComments[1])),
                       <<"\n">>))
      /\ HasNoEmptyLine(Get(ColumnOfPair(pair).comments))

\* C27: a column whose one comment range has two blank lines between two
\* runs of lines, and whose comments are two paragraphs
C27_Witness ==
  \E pair \in ParsedColumnPairs :
    /\ options.includeComments
    /\ Len(EntryOfPair(pair).leadingComments) = 1
    /\ \E i \in 2..(Len(TrimmedLines(EntryOfPair(pair).leadingComments[1])) - 2) :
         LET lines == TrimmedLines(EntryOfPair(pair).leadingComments[1])
         IN  /\ lines[i - 1] # <<>> /\ lines[i] = <<>>
             /\ lines[i + 1] = <<>> /\ lines[i + 2] # <<>>
    /\ IsSome(ColumnOfPair(pair).comments)
    /\ Cardinality({ i \in 1..Len(Get(ColumnOfPair(pair).comments)) :
                       Get(ColumnOfPair(pair).comments)[i] = "\n" }) = 1

\* the reference the outermost call of the chain of the entry gives
\* parseMethodChain, if that call is a references modifier
QueuedReference(prop) ==
  IF /\ IsSome(prop.initializer)
     /\ Get(prop.initializer).kind = "CallExpression"
     /\ getMethodName(Get(prop.initializer)) = Some(s_references)
    THEN parseReferences(Get(prop.initializer))
    ELSE None

\* C28: when the promise of parseColumn is resolved, no callback of a
\* references modifier is still queued, the column has the reference that
\* was extracted, and the column is the one parseColumn gives the table
\* parser, whose classifier and resolver read it
C28_ReferenceIsAttachedBeforeReturn ==
  IsSome(colResult) =>
    /\ \A j \in 1..Len(microtasks) : microtasks[j].job # "then"
    /\ Get(colResult) = parseColumn(colProp, options)
    /\ (IsSome(Get(colResult)) /\ IsSome(QueuedReference(colProp))) =>
         Get(Get(colResult)).references = QueuedReference(colProp)

\* C28: the promise of parseColumn is resolved with a column that has the
\* reference its callback attached
C28_Witness ==
  /\ IsSome(colResult)
  /\ IsSome(Get(colResult))
  /\ IsSome(QueuedReference(colProp))
  /\ Get(Get(colResult)).references = QueuedReference(colProp)

\* C29: a relation has finalTarget and junctionTable both set or both unset;
\* when they are set, junctionTable is the relatedTable of the relation and
\* finalTarget is not the name of the entity that owns the relation
C29_ResolvedFieldsGoTogether ==
  \A e \in ResultEntities :
    IsSome(e.relations) =>
      \A r \in 1..Len(Get(e.relations)) :
        /\ IsSome(Get(e.relations)[r].finalTarget) = IsSome(Get(e.relations)[r].junctionTable)
        /\ IsSome(Get(e.relations)[r].finalTarget) =>
             /\ Get(e.relations)[r].junctionTable = Some(Get(e.relations)[r].relatedTable)
             /\ Get(e.relations)[r].finalTarget # Some(e.name)

\* C29: the resolver has run over a junction table all of whose related
\* tables are one entity, and the relation of that entity to it is unset;
\* or over one that names an entity twice, and the relation of that entity
\* is set
C29_Witness ==
  /\ pc = "return"
  /\ \E k, i \in 1..Len(entities) :
       /\ IsJunctionEntity(entities[k])
       /\ Len(RelatedTables(entities, entities[k])) >= 2
       /\ Cardinality({ t \in 1..Len(RelatedTables(entities, entities[k])) :
                          RelatedTables(entities, entities[k])[t] = entities[i].name }) >= 2
       /\ JunctionRelations(entities[i], entities[k].name) # {}
       /\ \A r \in JunctionRelations(entities[i], entities[k].name) :
            IsResolved(Get(entities[i].relations)[r])
              = (Range(RelatedTables(entities, entities[k])) # {entities[i].name})

\* C30: the finalTarget of a relation names an entity of the file
C30_FinalTargetIsAnEntity ==
  TablesParsed =>
    \A i \in 1..Len(entities) :
      IsSome(entities[i].relations) =>
        \A r \in 1..Len(Get(entities[i].relations)) :
          IsSome(Get(entities[i].relations)[r].finalTarget) =>
            MapHas(entities, Get(Get(entities[i].relations)[r].finalTarget))

\* C30: the resolver has set, through a junction table of the file, a
\* finalTarget that names no entity of the file
C30_Witness ==
  /\ pc = "return"
  /\ \E k, i \in 1..Len(entities) :
       /\ IsJunctionEntity(entities[k])
       /\ IsSome(entities[i].relations)
       /\ \E r \in 1..Len(Get(entities[i].relations)) :
            /\ Get(entities[i].relations)[r].junctionTable = Some(entities[k].name)
            /\ IsSome(Get(entities[i].relations)[r].finalTarget)
            /\ ~MapHas(entities, Get(Get(entities[i].relations)[r].finalTarget))

=============================================================================
